---- MODULE Spec2Model ----
(***************************************************************************)
(* Model of nlowe/hqtt: the typed value cells of package mqtt               *)
(* (RemoteValue, Value) with their watcher and Await machinery, the         *)
(* autopaho adapter that tracks subscriptions across reconnects, and the    *)
(* Component with its platforms (Sensor, BinarySensor, Light).              *)
(*                                                                         *)
(* The adapter's methods, which wait for its mutex and then for the         *)
(* transport, are three steps each: lock, update or collect, request and    *)
(* unlock.                                                                  *)
(* Every method that takes the cell's mutex for its whole body is one      *)
(* atomic action.  Await is three steps (Watch, select, deferred Unwatch); *)
(* Republish is two (copy under RLock, then Write).  A run-time panic of a  *)
(* method is recorded as fault = TRUE in the event of the call, with the    *)
(* assignments made before the faulting statement kept.                     *)
(* SpecDelivery takes RemoteValue.ServeMQTT in steps (call, lock, body, one *)
(* step per watcher, return) for concurrent deliveries and for watchers     *)
(* that call back into the cell; SpecRouter adds the router's handlers.     *)
(***************************************************************************)
EXTENDS Integers, Sequences, FiniteSets, TLC

----------------------------------------------------------------------------
(* Bounds of the model *)

\* values of the cell's type T are 0..MaxVal (0 is T's zero value)
MaxVal == 2
\* application observers, each registering one callback
NumClients == 2
\* Await calls, each with its own closure, done channel and context
MaxAwaits == 1
\* transport writes recorded for a Value cell
MaxWrites == 2
\* threads that call the subscription manager concurrently
NumThreads == 2
\* subscriptions or topics handed to one Subscribe or Unsubscribe call
MaxArgs == 2
\* command cells of the Light
NumCells == 3

Values == 0..MaxVal
Clients == 1..NumClients
Awaits == 1..MaxAwaits
Threads == 1..NumThreads

\* no value (history variables only)
NoVal == 0 - 1

----------------------------------------------------------------------------
(* Topics and payloads: strings are sequences of characters *)

TopicSeparator == "/"

\* the topic the RemoteValue cell was constructed with
CellTopic == <<"s", "/", "t">>

\* topics of inbound messages: the cell's own, and near misses of it
Topics ==
  { CellTopic,
    CellTopic \o <<"/">>,
    <<"s">> }

Digits == <<"0", "1", "2", "3", "4", "5", "6", "7", "8", "9">>

IsDigit(ch) == \E i \in 1..10 : Digits[i] = ch

DigitVal(ch) == (CHOOSE i \in 1..10 : Digits[i] = ch) - 1

RECURSIVE Itoa(_)
\* strconv.Itoa on a non-negative int
Itoa(n) ==
  IF n < 10
    THEN <<Digits[n + 1]>>
    ELSE Itoa(n \div 10) \o <<Digits[(n % 10) + 1]>>

RECURSIVE ParseDigits(_, _)
ParseDigits(bytes, acc) ==
  IF bytes = <<>>
    THEN acc
    ELSE ParseDigits(Tail(bytes), acc * 10 + DigitVal(Head(bytes)))

\* strconv.ParseUint(s, 10, 64): one or more decimal digits, leading zeros allowed
ParseUint(bytes) ==
  IF Len(bytes) = 0 \/ \E i \in 1..Len(bytes) : ~IsDigit(bytes[i])
    THEN [err |-> TRUE, v |-> 0]
    ELSE [err |-> FALSE, v |-> ParseDigits(bytes, 0)]

\* json.Unmarshal into an unsigned integer: a JSON number has no leading zero
JsonUnmarshalUint(bytes) ==
  IF Len(bytes) > 1 /\ bytes[1] = "0"
    THEN [err |-> TRUE, v |-> 0]
    ELSE ParseUint(bytes)

\* the unmarshaler the cell holds is "nil" (none), "uint" (UintUnmarshaler) or
\* "json" (the default ServeMQTT installs when there is none)
Unmarshal(kind, bytes) ==
  IF kind = "uint" THEN ParseUint(bytes) ELSE JsonUnmarshalUint(bytes)

\* inbound payloads: every value, and payloads that do not decode
Payloads ==
  { Itoa(n) : n \in Values } \cup { <<"x">>, <<"0", "1">> }

----------------------------------------------------------------------------
(* Topic path utility *)

RECURSIVE TrimLeft(_)
TrimLeft(topic) ==
  IF topic # <<>> /\ Head(topic) = TopicSeparator
    THEN TrimLeft(Tail(topic))
    ELSE topic

RECURSIVE TrimRight(_)
TrimRight(topic) ==
  IF topic # <<>> /\ topic[Len(topic)] = TopicSeparator
    THEN TrimRight(SubSeq(topic, 1, Len(topic) - 1))
    ELSE topic

\* strings.Trim(topic, TopicSeparator)
TrimTopic(topic) == TrimRight(TrimLeft(topic))

RECURSIVE JoinFrom(_, _, _)
\* the loop of JoinTopic from part i on, result being the builder's content
JoinFrom(parts, i, result) ==
  IF i > Len(parts)
    THEN result
    ELSE IF parts[i] = <<>> \/ parts[i] = <<TopicSeparator>>
      THEN JoinFrom(parts, i + 1, result)
      ELSE JoinFrom(parts, i + 1,
                    result \o TrimTopic(parts[i])
                           \o (IF i # Len(parts) THEN <<TopicSeparator>> ELSE <<>>))

JoinTopic(parts) == JoinFrom(parts, 1, <<>>)

----------------------------------------------------------------------------
(* Observers *)

\* the callback of application observer c
Cb(c) == <<"cb", c>>
\* the closure Await call k registers
Tr(k) == <<"await", k>>

IsTransient(w) == w[1] = "await"

Range(s) == { s[i] : i \in 1..Len(s) }

\* the filters handed to Await: DesiredValue(1), and "at least 1"
Preds == { [kind |-> "eq", x |-> 1], [kind |-> "ge", x |-> 1] }

Desired(pred, t) ==
  IF pred.kind = "eq" THEN t = pred.x ELSE t >= pred.x

\* context.Cause of a cancelled context
Causes == {"canceled", "deadline"}

----------------------------------------------------------------------------
VARIABLES
  unmarshaler,    \* RemoteValue.unmarshaler
  watchers,       \* RemoteValue.watchers, in registration order
  rvV,            \* RemoteValue.v
  rvInitialized,  \* RemoteValue.initialized
  aw,             \* the Await calls: position, closure state, context, result
  hst,            \* application observers: "none", "watching", "released", "faulted"
  hid,            \* the id Watch returned to each application observer
  rmu,            \* RemoteValue.mu: 0 when free, else the thread that holds it
  dl,             \* the threads delivering to the RemoteValue: position,
                  \* arguments, decoded value, the watchers ranged over
  marshaler,      \* Value.marshaler
  valV,           \* Value.v
  valInitialized, \* Value.initialized
  writes,         \* the transport's WriteTopic calls for the Value cell
  rp,             \* a Republish in progress: position and copied value
  subscriptions,  \* adapter.subscriptions: topic -> options, NoSub when absent
  mu,             \* adapter.mu: 0 when free, else the thread that holds it
  th,             \* the threads calling the adapter: position, call, request
  latest,         \* per topic, the options of the latest Subscribe call not
                  \* followed by an Unsubscribe call (calls in lock order)
  handlers,       \* the router a.r: per topic, how many handlers are registered
  platformKind,   \* Component.Platform: "sensor", "binary_sensor" or "light"
  cells,          \* the Light's command cells, in declaration order
  topicPrefix,    \* Component.TopicPrefix
  subscribedTopics, \* Component.subscribedTopics
  handed,         \* the Component's handler has been given to a Subscriber
  subState,       \* "unsubscribed", "subscribed" (Subscribe returned nil),
                  \* "rejected" (the Subscriber refused); Unsubscribe resets it
  registered,     \* the topics of the last Subscribe call that reached the Subscriber
  parts,          \* the segments handed to JoinTopic
  device,         \* the Device that is configured
  components,     \* the components handed to Device.Configure: key -> Component
  sent,           \* the Writer's WriteTopic calls made by Device.Configure
  ev              \* the last call made: operation, arguments, outcome

rvVars == <<unmarshaler, watchers, rvV, rvInitialized, aw, hst, hid, rmu, dl>>
valVars == <<marshaler, valV, valInitialized, writes, rp>>
adVars == <<subscriptions, mu, th, latest, handlers>>
coVars == <<platformKind, cells, topicPrefix, subscribedTopics, handed, subState,
            registered>>
dvVars == <<parts, device, components, sent>>
vars == <<unmarshaler, watchers, rvV, rvInitialized, aw, hst, hid, rmu, dl,
          marshaler, valV, valInitialized, writes, rp,
          subscriptions, mu, th, latest, handlers,
          platformKind, cells, topicPrefix, subscribedTopics, handed, subState,
          registered, parts, device, components, sent, ev>>

AwaitInit ==
  [ pc |-> "idle", id |-> 0, pred |-> [kind |-> "eq", x |-> 1], got |-> 0,
    done |-> FALSE, ctx |-> "live", err |-> "nil", first |-> NoVal,
    alone |-> FALSE ]

\* a thread that is not delivering
DeliveryIdle ==
  [ pc |-> "idle", topic |-> <<>>, payload |-> <<>>, val |-> 0, ws |-> <<>>, i |-> 0 ]

\* NewRemoteValue: no value, no watchers, the unmarshaler given (possibly none)
NewRemoteValue(um) ==
  /\ unmarshaler = um
  /\ watchers = <<>>
  /\ rvV = 0
  /\ rvInitialized = FALSE
  /\ aw = [k \in Awaits |-> AwaitInit]
  /\ hst = [c \in Clients |-> "none"]
  /\ hid = [c \in Clients |-> 0]
  /\ rmu = 0
  /\ dl = [p \in Threads |-> DeliveryIdle]

----------------------------------------------------------------------------
(* RemoteValue.Watch and RemoteValue.Unwatch on the observer list *)

WatchList(ws, cb) ==
  [ws |-> Append(ws, cb), id |-> Len(ws) + 1 - 1]

\* the guard of Unwatch: the ids it refuses (logs and returns)
UnwatchRefuses(ws, id) ==
  Len(ws) = 0 \/ id < 1 \/ id > Len(ws)

\* append(v.watchers[:id], v.watchers[id+1:]...); slicing from id+1 > len panics
UnwatchList(ws, id) ==
  IF UnwatchRefuses(ws, id)
    THEN [ws |-> ws, fault |-> FALSE]
    ELSE IF id + 1 > Len(ws)
      THEN [ws |-> ws, fault |-> TRUE]
      ELSE [ws |-> SubSeq(ws, 1, id) \o SubSeq(ws, id + 2, Len(ws)),
            fault |-> FALSE]

\* another caller's Watch or Unwatch happened: no Await but k is alone now
Touch(awf, k) ==
  [j \in Awaits |-> IF j = k THEN awf[j] ELSE [awf[j] EXCEPT !.alone = FALSE]]

----------------------------------------------------------------------------
(* RemoteValue.ServeMQTT *)

\* a comparison that ignores leading and trailing separators
TopicMatchesTrimmed(cellTopic, topic) == TrimTopic(cellTopic) = TrimTopic(topic)

\* if v.topic != topic { return }
TopicMatches(cellTopic, topic) == cellTopic = topic

\* a delivery that goes on after a decoding error
DropsPayloadNever(parsed) == FALSE

\* if err != nil { log; return }
DropsPayload(parsed) == parsed.err

\* the closure of Await k called with t: records t and closes done when the
\* filter passes; closing a closed channel panics.  got is read by Await at
\* its return statement only: later writes to it are not recorded
InvokeTransient(st, k, t) ==
  LET a == st.aw[k]
      calls == Append(st.calls, <<Tr(k), t>>)
      selecting == a.pc = "select"
  IN  IF ~Desired(a.pred, t)
        THEN [st EXCEPT !.calls = calls]
        ELSE [ aw |-> [st.aw EXCEPT ![k] =
                         [a EXCEPT !.got = IF selecting THEN t ELSE a.got,
                                   !.done = TRUE,
                                   !.first = IF a.first = NoVal THEN t ELSE a.first]],
               calls |-> calls,
               fault |-> a.done ]

InvokeWatcher(st, w, t) ==
  IF IsTransient(w)
    THEN InvokeTransient(st, w[2], t)
    ELSE [st EXCEPT !.calls = Append(st.calls, <<w, t>>)]

RECURSIVE NotifyFrom(_, _, _, _)
\* for _, w := range v.watchers { w(v.v) }: a panic ends the loop
NotifyFrom(ws, i, t, st) ==
  IF i > Len(ws) \/ st.fault
    THEN st
    ELSE NotifyFrom(ws, i + 1, t, InvokeWatcher(st, ws[i], t))

NotifyWatchers(ws, t, awf) ==
  NotifyFrom(ws, 1, t, [aw |-> awf, calls |-> <<>>, fault |-> FALSE])

\* the event of a call whose outcome is all in the cell's state
Other == [op |-> "other"]

\* the unmarshaler a delivery uses: the JSON default when none is configured
EffectiveUnmarshaler == IF unmarshaler = "nil" THEN "json" ELSE unmarshaler

\* what a delivery was given (the cell's own topic or another, and on the
\* cell's topic a payload that decodes or not) and what it did (the watcher
\* calls made, a panic)
ServeEvent(cell, topic, payload, calls, fault) ==
  [ op |-> "ServeMQTT", cell |-> cell, sameTopic |-> topic = CellTopic,
    err |-> /\ cell = "rv"
            /\ topic = CellTopic
            /\ Unmarshal(EffectiveUnmarshaler, payload).err,
    val |-> IF cell = "rv" /\ topic = CellTopic
              THEN Unmarshal(EffectiveUnmarshaler, payload).v
              ELSE 0,
    calls |-> calls, fault |-> fault ]

\* a delivery that stores the value and leaves the flag as it was
ReceiveValueOnly(parsed) == rvV' = parsed.v /\ UNCHANGED rvInitialized

\* v.v, v.initialized = parsed, true
Receive(parsed) == rvV' = parsed.v /\ rvInitialized' = TRUE

\* ServeMQTT on a nil *RemoteValue
ServeMQTTNil(topic, payload) ==
  /\ ev' = ServeEvent("nil", topic, payload, <<>>, FALSE)
  /\ UNCHANGED <<rvVars, valVars, adVars, coVars, dvVars>>

ServeMQTT(topic, payload) ==
  IF ~TopicMatches(CellTopic, topic)
    THEN /\ ev' = ServeEvent("rv", topic, payload, <<>>, FALSE)
         /\ UNCHANGED <<rvVars, valVars, adVars, coVars, dvVars>>
    ELSE LET um == EffectiveUnmarshaler
             parsed == Unmarshal(um, payload)
             st == NotifyWatchers(watchers, parsed.v, aw)
         IN  /\ unmarshaler' = um
             /\ IF DropsPayload(parsed)
                  THEN /\ ev' = ServeEvent("rv", topic, payload, <<>>, FALSE)
                       /\ UNCHANGED <<rvV, rvInitialized, aw>>
                  ELSE /\ Receive(parsed)
                       /\ aw' = st.aw
                       /\ ev' = ServeEvent("rv", topic, payload, st.calls, st.fault)
             /\ UNCHANGED <<watchers, hst, hid, rmu, dl,
               valVars, adVars, coVars, dvVars>>

\* RemoteValue.Get
RemoteGet ==
  /\ ev' = [op |-> "Get", cell |-> "rv", v |-> rvV, ok |-> rvInitialized]
  /\ UNCHANGED <<rvVars, valVars, adVars, coVars, dvVars>>

----------------------------------------------------------------------------
(* Application observers *)

\* id := v.Watch(callback) by observer c (observers are interchangeable: they
\* register in the order of their numbers)
Watch(c) ==
  /\ hst[c] = "none"
  /\ \A d \in Clients : d < c => hst[d] # "none"
  /\ LET r == WatchList(watchers, Cb(c))
     IN  /\ watchers' = r.ws
         /\ hid' = [hid EXCEPT ![c] = r.id]
         /\ ev' = Other
  /\ hst' = [hst EXCEPT ![c] = "watching"]
  /\ aw' = Touch(aw, 0)
  /\ UNCHANGED <<unmarshaler, rvV, rvInitialized, rmu, dl,
               valVars, adVars, coVars, dvVars>>

\* v.Unwatch(id) by observer c, with the id its Watch returned
Unwatch(c) ==
  /\ hst[c] = "watching"
  /\ LET r == UnwatchList(watchers, hid[c])
     IN  /\ watchers' = r.ws
         /\ hst' = [hst EXCEPT ![c] = IF r.fault THEN "faulted" ELSE "released"]
         /\ ev' = Other
  /\ aw' = Touch(aw, 0)
  /\ UNCHANGED <<unmarshaler, rvV, rvInitialized, hid, rmu, dl,
               valVars, adVars, coVars, dvVars>>

\* ids handed to Unwatch that identify no registered observer
UnknownIds == -1..(NumClients + MaxAwaits + 1)

IdentifiesNone(ws, id) == id < 0 \/ id >= Len(ws)

\* v.Unwatch(id) with an id that identifies no registered observer
UnwatchUnknown(id) ==
  /\ IdentifiesNone(watchers, id)
  /\ LET r == UnwatchList(watchers, id)
     IN  /\ watchers' = r.ws
         /\ ev' = [op |-> "UnwatchUnknown", fault |-> r.fault]
  /\ aw' = Touch(aw, 0)
  /\ UNCHANGED <<unmarshaler, rvV, rvInitialized, hst, hid, rmu, dl,
               valVars, adVars, coVars, dvVars>>

----------------------------------------------------------------------------
(* RemoteValue.Await *)

\* the context of Await k is cancelled, before or during the call
Cancel(k, cause) ==
  /\ aw[k].pc \in {"idle", "select"}
  /\ aw[k].ctx = "live"
  /\ aw' = [aw EXCEPT ![k].ctx = cause]
  /\ ev' = Other
  /\ UNCHANGED <<unmarshaler, watchers, rvV, rvInitialized, hst, hid, rmu, dl,
               valVars, adVars, coVars, dvVars>>

\* Await k starts: done := make(chan), var got T, id := v.Watch(closure)
AwaitWatch(k, pred) ==
  /\ aw[k].pc = "idle"
  /\ LET r == WatchList(watchers, Tr(k))
     IN  /\ watchers' = r.ws
         /\ aw' = [Touch(aw, k) EXCEPT ![k] =
                     [aw[k] EXCEPT !.pc = "select", !.id = r.id, !.pred = pred,
                                   !.alone = TRUE]]
         /\ ev' = Other
  /\ UNCHANGED <<unmarshaler, rvV, rvInitialized, hst, hid, rmu, dl,
               valVars, adVars, coVars, dvVars>>

\* select takes case <-done: return got, nil
AwaitDone(k) ==
  /\ aw[k].pc = "select"
  /\ aw[k].done
  /\ aw' = [aw EXCEPT ![k].pc = "unwatch", ![k].err = "nil"]
  /\ ev' = Other
  /\ UNCHANGED <<unmarshaler, watchers, rvV, rvInitialized, hst, hid, rmu, dl,
               valVars, adVars, coVars, dvVars>>

\* select takes case <-ctx.Done(): return got, context.Cause(ctx)
AwaitCancelled(k) ==
  /\ aw[k].pc = "select"
  /\ aw[k].ctx # "live"
  /\ aw' = [aw EXCEPT ![k].pc = "unwatch", ![k].err = aw[k].ctx]
  /\ ev' = Other
  /\ UNCHANGED <<unmarshaler, watchers, rvV, rvInitialized, hst, hid, rmu, dl,
               valVars, adVars, coVars, dvVars>>

\* the deferred v.Unwatch(id), then Await returns (or the panic leaves it)
AwaitReturn(k) ==
  /\ aw[k].pc = "unwatch"
  /\ LET r == UnwatchList(watchers, aw[k].id)
     IN  /\ watchers' = r.ws
         /\ aw' = [Touch(aw, k) EXCEPT ![k].pc =
                     IF r.fault THEN "panicked" ELSE "returned"]
         /\ ev' = Other
  /\ UNCHANGED <<unmarshaler, rvV, rvInitialized, hst, hid, rmu, dl,
               valVars, adVars, coVars, dvVars>>

----------------------------------------------------------------------------
(* Value cell *)

\* the topic the Value cell was constructed with, and its WriteOptions
ValueTopic == <<"v">>
ValueOpts == [qos |-> "at least once", retain |-> TRUE]

\* the prefixes Write and Republish are called with
Prefixes == { <<>>, <<"p">>, <<"p", "/">> }

\* the marshaler the cell holds: none, UintMarshaler, or a marshaler of the
\* application's that refuses the zero value
Marshalers == {"nil", "uint", "nonzero"}

Marshal(kind, val) ==
  IF kind = "nonzero" /\ val = 0
    THEN [err |-> TRUE, data |-> <<>>]
    ELSE [err |-> FALSE, data |-> Itoa(val)]

\* NewValueWithOptions
NewValue(m) ==
  /\ marshaler = m
  /\ valV = 0
  /\ valInitialized = FALSE
  /\ writes = <<>>
  /\ rp = [pc |-> "idle", v |-> 0]

\* what a Write was given (no marshaler, a value the marshaler refuses, a
\* transport that refuses the write) and what it returned
WriteEvent(op, newValue, transportOk, ret, err) ==
  [ op |-> op, noMarshaler |-> marshaler = "nil",
    marshalErr |-> marshaler # "nil" /\ Marshal(marshaler, newValue).err,
    transportErr |-> /\ marshaler # "nil"
                     /\ ~Marshal(marshaler, newValue).err
                     /\ ~transportOk,
    newValue |-> newValue, ret |-> ret, err |-> err ]

\* a Write that goes on after a marshaling error
MarshalFailsNever(m) == FALSE

\* if err != nil { return v.v, fmt.Errorf("marshal ...") }
MarshalFails(m) == m.err

\* a Write that keeps the new value only when the transport took it
StoreIfPublished(newValue, transportOk) ==
  IF transportOk
    THEN valV' = newValue /\ valInitialized' = TRUE
    ELSE UNCHANGED <<valV, valInitialized>>

\* v.v = newValue; v.initialized = true, before w.WriteTopic is called
Store(newValue, transportOk) ==
  valV' = newValue /\ valInitialized' = TRUE

\* the body of Value.Write, called by op; transportOk is the outcome of
\* w.WriteTopic
WriteBody(op, prefix, newValue, transportOk) ==
  IF marshaler = "nil"
    THEN /\ ev' = WriteEvent(op, newValue, transportOk, newValue, "ErrNoMarshaler")
         /\ UNCHANGED <<valV, valInitialized, writes>>
    ELSE LET m == Marshal(marshaler, newValue)
         IN  IF MarshalFails(m)
               THEN /\ ev' = WriteEvent(op, newValue, transportOk, valV, "marshal")
                    /\ UNCHANGED <<valV, valInitialized, writes>>
               ELSE /\ Store(newValue, transportOk)
                    /\ writes' = Append(writes,
                                        [ topic |-> JoinTopic(<<prefix, ValueTopic>>),
                                          opts |-> ValueOpts,
                                          data |-> m.data,
                                          ok |-> transportOk ])
                    /\ ev' = WriteEvent(op, newValue, transportOk, newValue,
                                        IF transportOk THEN "nil" ELSE "transport")

\* Value.Write
Write(prefix, newValue, transportOk) ==
  /\ Len(writes) < MaxWrites
  /\ WriteBody("Write", prefix, newValue, transportOk)
  /\ UNCHANGED <<marshaler, rp, rvVars, adVars, coVars, dvVars>>

\* Value.Get
Get ==
  /\ ev' = [op |-> "Get", cell |-> "val", v |-> valV, ok |-> valInitialized]
  /\ UNCHANGED <<valVars, rvVars, adVars, coVars, dvVars>>

\* Value.Republish: copy the value under RLock; ErrNeverWritten without a value
RepublishRead ==
  /\ rp.pc = "idle"
  /\ Len(writes) < MaxWrites
  /\ IF ~valInitialized
       THEN /\ ev' = [op |-> "Republish", err |-> "ErrNeverWritten"]
            /\ UNCHANGED rp
       ELSE /\ rp' = [pc |-> "write", v |-> valV]
            /\ ev' = Other
  /\ UNCHANGED <<marshaler, valV, valInitialized, writes, rvVars, adVars, coVars, dvVars>>

\* Value.Republish: return v.Write(ctx, w, prefix, currentValue)
RepublishWrite(prefix, transportOk) ==
  /\ rp.pc = "write"
  /\ WriteBody("Republish", prefix, rp.v, transportOk)
  /\ rp' = [pc |-> "idle", v |-> 0]
  /\ UNCHANGED <<marshaler, rvVars, adVars, coVars, dvVars>>

----------------------------------------------------------------------------
(* Subscription manager: the autopaho adapter *)

\* topic filters the application subscribes to
AdTopics == { <<"a">>, <<"b">> }

\* mqtt.ReadOptions of a subscription (its quality of service)
ReadOpts == { [qos |-> 0], [qos |-> 1] }

\* mqtt.Subscription values handed to Subscribe
Subscriptions == { [topic |-> t, options |-> o] : t \in AdTopics, o \in ReadOpts }

SeqsUpTo(S, n) == UNION { [1..k -> S] : k \in 0..n }

\* paho.SubscribeOptions{Topic: s.Topic, QoS: uint8(s.Options.QoS), ...}
ToPaho(sub) == [topic |-> sub.topic, qos |-> sub.options.qos % 256]

\* a.subscriptions[k] = v
MapPut(m, k, v) == [t \in (DOMAIN m) \cup {k} |-> IF t = k THEN v ELSE m[t]]

\* delete(a.subscriptions, k)
MapDelete(m, k) == [t \in (DOMAIN m) \ {k} |-> m[t]]

RECURSIVE TrackFrom(_, _, _)
\* for i, s := range subscriptions { a.subscriptions[s.Topic] = opts }
TrackFrom(m, subs, i) ==
  IF i > Len(subs)
    THEN m
    ELSE TrackFrom(MapPut(m, subs[i].topic, ToPaho(subs[i])), subs, i + 1)

RECURSIVE DeleteFrom(_, _, _)
DeleteFrom(m, topics, i) ==
  IF i > Len(topics)
    THEN m
    ELSE DeleteFrom(MapDelete(m, topics[i]), topics, i + 1)

\* an Unsubscribe that forgets only the first topic it is given
DeleteFirstOnly(m, topics) ==
  IF topics = <<>> THEN m ELSE MapDelete(m, topics[1])

\* for _, t := range topics { delete(a.subscriptions, t) }
DeleteTopics(m, topics) == DeleteFrom(m, topics, 1)

\* the orders in which a range over the map can visit its keys
Orders(m) ==
  { o \in [1..Cardinality(DOMAIN m) -> DOMAIN m] :
      \A i, j \in DOMAIN o : o[i] = o[j] => i = j }

\* handlers registered with the router for one topic, at most
MaxHandlers == 2

\* how often the call names the topic
TimesNamed(subs, t) == Cardinality({ i \in DOMAIN subs : subs[i].topic = t })

RECURSIVE RegisterFrom(_, _, _)
\* for i, s := range subscriptions { a.r.RegisterHandler(s.Topic, ...) }: the
\* router adds the handler to those it holds for the topic
RegisterFrom(r, subs, i) ==
  IF i > Len(subs)
    THEN r
    ELSE RegisterFrom([r EXCEPT ![subs[i].topic] = @ + 1], subs, i + 1)

ThreadIdle == [pc |-> "idle", op |-> "none", args |-> <<>>, req |-> <<>>]

\* DialMQTT: no subscriptions, the mutex released once a.conn is assigned
NewAdapter ==
  /\ subscriptions = <<>>
  /\ mu = 0
  /\ th = [p \in Threads |-> ThreadIdle]
  /\ latest = <<>>
  /\ handlers = [t \in AdTopics |-> 0]

\* a mutex that never makes a caller wait
MutexIgnored(m) == TRUE

\* a.mu.Lock() returns when no thread holds the mutex
MutexFree(m) == m = 0

\* the topics named by the call, each with the options of its last entry
LatestAfterSubscribe(l, subs) ==
  LET named == { subs[i].topic : i \in DOMAIN subs }
      last(t) == CHOOSE i \in DOMAIN subs :
                   /\ subs[i].topic = t
                   /\ \A j \in DOMAIN subs : subs[j].topic = t => j <= i
  IN  [t \in (DOMAIN l) \cup named |->
         IF t \in named THEN ToPaho(subs[last(t)]) ELSE l[t]]

LatestAfterUnsubscribe(l, topics) ==
  [t \in (DOMAIN l) \ Range(topics) |-> l[t]]

\* a.mu.Lock() at the head of onReconnect, Subscribe and Unsubscribe
Lock(p, op, args) ==
  /\ th[p].pc = "idle"
  /\ MutexFree(mu)
  /\ mu' = p
  /\ th' = [th EXCEPT ![p] = [pc |-> "locked", op |-> op, args |-> args, req |-> <<>>]]

\* the deferred a.mu.Unlock() as the method returns
Return(p) ==
  /\ mu' = 0
  /\ th' = [th EXCEPT ![p] = ThreadIdle]

\* the connection manager's OnConnectionUp callback runs a.onReconnect
ReconnectLock(p) ==
  /\ Lock(p, "reconnect", <<>>)
  /\ ev' = Other
  /\ UNCHANGED <<subscriptions, latest, handlers, rvVars, valVars, coVars, dvVars>>

\* onReconnect: nothing to do without subscriptions, else build the request
ReconnectCollect(p) ==
  /\ th[p].pc = "locked"
  /\ th[p].op = "reconnect"
  /\ IF Cardinality(DOMAIN subscriptions) = 0
       THEN /\ Return(p)
            /\ ev' = [op |-> "onReconnect", sent |-> FALSE]
       ELSE /\ \E o \in Orders(subscriptions) :
                 th' = [th EXCEPT ![p].pc = "send",
                                  ![p].req = [i \in DOMAIN o |-> subscriptions[o[i]]]]
            /\ ev' = Other
            /\ UNCHANGED mu
  /\ UNCHANGED <<subscriptions, latest, handlers, rvVars, valVars, coVars, dvVars>>

\* an onReconnect that sends the request again when the transport refused it
ReconnectRetry(p, ok) ==
  IF ok THEN Return(p) ELSE UNCHANGED <<mu, th>>

\* if err != nil { log }; onReconnect returns either way
ReconnectReturn(p, ok) == Return(p)

\* onReconnect: a.conn.Subscribe(ctx, sub), accepted or refused by the transport
ReconnectSend(p, ok) ==
  /\ th[p].pc = "send"
  /\ th[p].op = "reconnect"
  /\ ev' = [op |-> "resubscribe", req |-> th[p].req, ok |-> ok]
  /\ ReconnectReturn(p, ok)
  /\ UNCHANGED <<subscriptions, latest, handlers, rvVars, valVars, coVars, dvVars>>

\* adapter.Subscribe is called with subs
SubscribeLock(p, subs) ==
  /\ \A t \in AdTopics : handlers[t] + TimesNamed(subs, t) <= MaxHandlers
  /\ Lock(p, "subscribe", subs)
  /\ latest' = LatestAfterSubscribe(latest, subs)
  /\ ev' = Other
  /\ UNCHANGED <<subscriptions, handlers, rvVars, valVars, coVars, dvVars>>

\* adapter.Subscribe: return nil without subscriptions, else track each one
\* and build the request
SubscribeTrack(p) ==
  /\ th[p].pc = "locked"
  /\ th[p].op = "subscribe"
  /\ IF Len(th[p].args) = 0
       THEN /\ Return(p)
            /\ ev' = [op |-> "Subscribe", sent |-> FALSE]
            /\ UNCHANGED <<subscriptions, handlers>>
       ELSE /\ subscriptions' = TrackFrom(subscriptions, th[p].args, 1)
            /\ handlers' = RegisterFrom(handlers, th[p].args, 1)
            /\ th' = [th EXCEPT ![p].pc = "send",
                                ![p].req = [i \in DOMAIN th[p].args |->
                                              ToPaho(th[p].args[i])]]
            /\ ev' = Other
            /\ UNCHANGED mu
  /\ UNCHANGED <<latest, rvVars, valVars, coVars, dvVars>>

\* adapter.Subscribe: return the outcome of a.conn.Subscribe(ctx, sub)
SubscribeSend(p, ok) ==
  /\ th[p].pc = "send"
  /\ th[p].op = "subscribe"
  /\ ev' = [op |-> "subscribe", req |-> th[p].req, ok |-> ok]
  /\ Return(p)
  /\ UNCHANGED <<subscriptions, latest, handlers, rvVars, valVars, coVars, dvVars>>

\* adapter.Unsubscribe is called with topics
UnsubscribeLock(p, topics) ==
  /\ Lock(p, "unsubscribe", topics)
  /\ latest' = LatestAfterUnsubscribe(latest, topics)
  /\ ev' = Other
  /\ UNCHANGED <<subscriptions, handlers, rvVars, valVars, coVars, dvVars>>

\* adapter.Unsubscribe: forget each topic; no call is made to the router a.r
UnsubscribeDelete(p) ==
  /\ th[p].pc = "locked"
  /\ th[p].op = "unsubscribe"
  /\ subscriptions' = DeleteTopics(subscriptions, th[p].args)
  /\ th' = [th EXCEPT ![p].pc = "send", ![p].req = th[p].args]
  /\ ev' = [op |-> "delete", topics |-> th[p].args, had |-> DOMAIN subscriptions]
  /\ UNCHANGED <<mu, latest, handlers, rvVars, valVars, coVars, dvVars>>

\* adapter.Unsubscribe: return the outcome of a.conn.Unsubscribe
UnsubscribeSend(p, ok) ==
  /\ th[p].pc = "send"
  /\ th[p].op = "unsubscribe"
  /\ ev' = [op |-> "unsubscribe", req |-> th[p].req, ok |-> ok]
  /\ Return(p)
  /\ UNCHANGED <<subscriptions, latest, handlers, rvVars, valVars, coVars, dvVars>>

\* the connection hands a received publish to a.r.Route: every handler
\* registered for its topic is called
Route(topic) ==
  /\ ev' = [op |-> "Route", topic |-> topic, invoked |-> handlers[topic]]
  /\ UNCHANGED <<rvVars, valVars, adVars, coVars, dvVars>>

----------------------------------------------------------------------------
(* Concurrent deliveries to a RemoteValue, step by step *)

\* what an observer does with the cell while it is being invoked: nothing, or
\* a call of Get, Watch, Unwatch or Await on the cell that invokes it
Reactions == {"none", "Get", "Watch", "Unwatch", "Await"}

\* topics and payloads of the concurrent deliveries
DeliveryTopics == { CellTopic, <<"s">> }
DeliveryPayloads == { Itoa(n) : n \in Values } \cup { <<"x">> }

\* a router thread calls v.ServeMQTT(w, topic, payload)
DeliverCall(p, topic, payload) ==
  /\ dl[p].pc = "idle"
  /\ dl' = [dl EXCEPT ![p] = [DeliveryIdle EXCEPT !.pc = "lock", !.topic = topic,
                                                   !.payload = payload]]
  /\ ev' = Other
  /\ UNCHANGED <<unmarshaler, watchers, rvV, rvInitialized, aw, hst, hid, rmu,
                 valVars, adVars, coVars, dvVars>>

\* ServeMQTT: v.mu.Lock()
DeliverLock(p) ==
  /\ dl[p].pc = "lock"
  /\ MutexFree(rmu)
  /\ rmu' = p
  /\ dl' = [dl EXCEPT ![p].pc = "locked"]
  /\ ev' = Other
  /\ UNCHANGED <<unmarshaler, watchers, rvV, rvInitialized, aw, hst, hid,
                 valVars, adVars, coVars, dvVars>>

\* ServeMQTT from the topic comparison to the head of the loop over the
\* watchers; the two early returns run the deferred Unlock
DeliverBody(p) ==
  /\ dl[p].pc = "locked"
  /\ IF ~TopicMatches(CellTopic, dl[p].topic)
       THEN /\ rmu' = 0
            /\ dl' = [dl EXCEPT ![p] = DeliveryIdle]
            /\ ev' = [op |-> "dropped", thread |-> p]
            /\ UNCHANGED <<unmarshaler, rvV, rvInitialized>>
       ELSE LET um == EffectiveUnmarshaler
                parsed == Unmarshal(um, dl[p].payload)
            IN  /\ unmarshaler' = um
                /\ IF DropsPayload(parsed)
                     THEN /\ rmu' = 0
                          /\ dl' = [dl EXCEPT ![p] = DeliveryIdle]
                          /\ ev' = [op |-> "dropped", thread |-> p]
                          /\ UNCHANGED <<rvV, rvInitialized>>
                     ELSE /\ Receive(parsed)
                          /\ dl' = [dl EXCEPT ![p].pc = "notify", ![p].val = parsed.v,
                                              ![p].ws = watchers, ![p].i = 1]
                          /\ ev' = [op |-> "store", thread |-> p, val |-> parsed.v]
                          /\ UNCHANGED rmu
  /\ UNCHANGED <<watchers, aw, hst, hid, valVars, adVars, coVars, dvVars>>

\* one turn of the loop: w(v.v), the watcher reading the field as it is called.
\* A watcher that calls Get, Watch, Unwatch or Await on the cell reaches the
\* RLock or Lock that opens those methods on the goroutine that holds v.mu
\* since DeliverLock and releases it only when ServeMQTT returns: the call
\* never returns
DeliverInvoke(p, react) ==
  /\ dl[p].pc = "notify"
  /\ dl[p].i <= Len(dl[p].ws)
  /\ ev' = [op |-> "invoke", thread |-> p, watcher |-> dl[p].ws[dl[p].i],
            arg |-> rvV, val |-> dl[p].val, react |-> react]
  /\ dl' = IF react = "none"
             THEN [dl EXCEPT ![p].i = @ + 1]
             ELSE [dl EXCEPT ![p].pc = "blocked"]
  /\ UNCHANGED <<unmarshaler, watchers, rvV, rvInitialized, aw, hst, hid, rmu,
                 valVars, adVars, coVars, dvVars>>

\* the loop is over: the deferred v.mu.Unlock(), ServeMQTT returns
DeliverReturn(p) ==
  /\ dl[p].pc = "notify"
  /\ dl[p].i > Len(dl[p].ws)
  /\ rmu' = 0
  /\ dl' = [dl EXCEPT ![p] = DeliveryIdle]
  /\ ev' = [op |-> "delivered", thread |-> p, val |-> dl[p].val]
  /\ UNCHANGED <<unmarshaler, watchers, rvV, rvInitialized, aw, hst, hid,
                 valVars, adVars, coVars, dvVars>>

\* v.Watch(callback) from an application goroutine: v.mu.Lock() first
WatchLocked(c) == MutexFree(rmu) /\ Watch(c)

\* v.Get() from an application goroutine: v.mu.RLock() first
GetLocked == MutexFree(rmu) /\ RemoteGet

----------------------------------------------------------------------------
(* Component and its platforms *)

\* the Component's TopicPrefix
TopicPrefixes == { <<>>, <<"p">>, <<"p", "/">> }

\* a command cell of the Light: nil, or a RemoteValue constructed with a topic
NilCell == [nil |-> TRUE, topic |-> <<>>, v |-> 0, initialized |-> FALSE]

NewCell(topic) == [nil |-> FALSE, topic |-> topic, v |-> 0, initialized |-> FALSE]

\* the topics the Light's command cells are constructed with
CommandTopics == { CellTopic, CellTopic \o <<TopicSeparator>>, <<"t">> }

\* the Light's command fields, in the order Light declares and dispatches them
\* (Command, ColorModeCommand, BrightnessCommand, ...)
LightCells == 1..NumCells

Lights == [LightCells -> {NilCell} \cup { NewCell(t) : t \in CommandTopics }]

PlatformKinds == {"sensor", "binary_sensor", "light"}

\* topics of the messages the Component's handler is called with
MsgTopics ==
  { <<"p", "/", "s", "/", "t">>,
    <<"p", "s", "/", "t">>,
    <<"s", "/", "t">>,
    <<"p", "/", "t">>,
    <<"p">>,
    <<"p", "/", "x">> }

\* payloads of those messages: one that decodes and one that does not
MsgPayloads == { Itoa(1), <<"x">> }

\* a Component around a platform, not subscribed
NewComponent(kind, light, prefix) ==
  /\ platformKind = kind
  /\ cells = light
  /\ topicPrefix = prefix
  /\ subscribedTopics = <<>>
  /\ handed = FALSE
  /\ subState = "unsubscribed"
  /\ registered = <<>>

\* RemoteValue.FullyQualifiedTopic
FullyQualifiedTopic(cell, prefix) ==
  IF cell.nil THEN <<>> ELSE JoinTopic(<<prefix, cell.topic>>)

\* RemoteValue.AppendSubscribeOptions
AppendSubscribeOptions(cell, existing, prefix) ==
  IF cell.nil \/ cell.topic = <<>>
    THEN existing
    ELSE Append(existing, [topic |-> FullyQualifiedTopic(cell, prefix),
                           options |-> [qos |-> 0]])

RECURSIVE LightSubscriptionsFrom(_, _, _, _)
LightSubscriptionsFrom(light, i, result, prefix) ==
  IF i > Len(light)
    THEN result
    ELSE LightSubscriptionsFrom(light, i + 1,
                                AppendSubscribeOptions(light[i], result, prefix),
                                prefix)

\* Light.Subscriptions
LightSubscriptions(light, prefix) == LightSubscriptionsFrom(light, 1, <<>>, prefix)

\* Platform.Subscriptions: Sensor and BinarySensor declare none
PlatformSubscriptions(kind, light, prefix) ==
  IF kind = "light" THEN LightSubscriptions(light, prefix) ELSE <<>>

TopicsOf(subs) == [i \in DOMAIN subs |-> subs[i].topic]

\* RemoteValue.ServeMQTT on a command cell (a cell without watchers)
CellServeMQTT(cell, topic, payload) ==
  IF cell.nil
    THEN cell
    ELSE IF ~TopicMatches(cell.topic, topic)
      THEN cell
      ELSE LET parsed == Unmarshal("uint", payload)
           IN  IF DropsPayload(parsed)
                 THEN cell
                 ELSE [cell EXCEPT !.v = parsed.v, !.initialized = TRUE]

\* the case Light.ServeMQTT's switch takes: the first field whose
\* FullyQualifiedTopic("") equals the topic, 0 for the default case
SwitchCase(light, topic) ==
  IF \E i \in DOMAIN light : FullyQualifiedTopic(light[i], <<>>) = topic
    THEN CHOOSE i \in DOMAIN light :
           /\ FullyQualifiedTopic(light[i], <<>>) = topic
           /\ \A j \in DOMAIN light :
                FullyQualifiedTopic(light[j], <<>>) = topic => i <= j
    ELSE 0

\* Light.ServeMQTT
LightServeMQTT(light, topic, payload) ==
  LET i == SwitchCase(light, topic)
  IN  IF i = 0
        THEN light
        ELSE [light EXCEPT ![i] = CellServeMQTT(light[i], topic, payload)]

\* Platform.ServeMQTT: Sensor and BinarySensor ignore every message
PlatformServeMQTT(kind, light, topic, payload) ==
  IF kind = "light" THEN LightServeMQTT(light, topic, payload) ELSE light

\* strings.CutPrefix(s, prefix)
CutPrefix(str, prefix) ==
  IF Len(str) >= Len(prefix) /\ SubSeq(str, 1, Len(prefix)) = prefix
    THEN [rest |-> SubSeq(str, Len(prefix) + 1, Len(str)), ok |-> TRUE]
    ELSE [rest |-> str, ok |-> FALSE]

\* an Unsubscribe that reaches the Subscriber whatever it holds
NothingSubscribedNever(topics) == FALSE

\* if len(c.subscribedTopics) == 0 { return nil }
NothingSubscribed(topics) == Len(topics) = 0

\* Component.Subscribe; ok is the outcome of s.Subscribe
ComponentSubscribe(ok) ==
  /\ IF Len(subscribedTopics) # 0
       THEN /\ ev' = [op |-> "Subscribe", from |-> subState,
                      err |-> "ErrComponentAlreadySubscribed", call |-> <<>>]
            /\ UNCHANGED <<subscribedTopics, handed, subState, registered>>
       ELSE LET subs == PlatformSubscriptions(platformKind, cells, topicPrefix)
            IN  /\ subscribedTopics' = TopicsOf(subs)
                /\ handed' = TRUE
                /\ subState' = IF ok THEN "subscribed" ELSE "rejected"
                /\ registered' = TopicsOf(subs)
                /\ ev' = [op |-> "Subscribe", from |-> subState,
                          err |-> IF ok THEN "nil" ELSE "subscriber",
                          call |-> <<[kind |-> "Subscribe", topics |-> TopicsOf(subs)]>>]
  /\ UNCHANGED <<platformKind, cells, topicPrefix, rvVars, valVars, adVars, dvVars>>

\* Component.Unsubscribe; ok is the outcome of s.Unsubscribe
ComponentUnsubscribe(ok) ==
  /\ IF NothingSubscribed(subscribedTopics)
       THEN /\ ev' = [op |-> "Unsubscribe", from |-> subState, err |-> "nil",
                      call |-> <<>>]
            /\ UNCHANGED subscribedTopics
       ELSE /\ subscribedTopics' = <<>>
            /\ ev' = [op |-> "Unsubscribe", from |-> subState,
                      err |-> IF ok THEN "nil" ELSE "subscriber",
                      call |-> <<[kind |-> "Unsubscribe", topics |-> subscribedTopics]>>]
  /\ subState' = "unsubscribed"
  /\ registered' = <<>>
  /\ UNCHANGED <<platformKind, cells, topicPrefix, handed, rvVars, valVars, adVars, dvVars>>

\* the handler Component.Subscribe gave to the Subscriber is called
Handle(topic, payload) ==
  /\ handed
  /\ LET cut == CutPrefix(topic, TrimTopic(topicPrefix))
         rest == TrimTopic(cut.rest)
     IN  IF ~cut.ok
           THEN /\ ev' = [op |-> "Handle", topic |-> topic, payload |-> payload,
                          forwarded |-> <<>>]
                /\ UNCHANGED cells
           ELSE /\ cells' = PlatformServeMQTT(platformKind, cells, rest, payload)
                /\ ev' = [op |-> "Handle", topic |-> topic, payload |-> payload,
                          forwarded |-> <<rest>>]
  /\ UNCHANGED <<platformKind, topicPrefix, subscribedTopics, handed, subState,
                 registered, rvVars, valVars, adVars, dvVars>>

----------------------------------------------------------------------------
(* Topic segments handed to JoinTopic *)

MaxParts == 3

\* the segments a caller joins: empty, the bare separator, plain, with a
\* leading or trailing separator, two levels, separators only
Segments ==
  { <<>>, <<TopicSeparator>>, <<"a">>, <<TopicSeparator, "a">>,
    <<"a", TopicSeparator>>, <<"a", TopicSeparator, "b">>,
    <<TopicSeparator, TopicSeparator>> }

\* no device, no components, nothing joined and nothing published
IdleDevice ==
  /\ parts = <<>>
  /\ device = <<>>
  /\ components = <<>>
  /\ sent = <<>>

\* a call JoinTopic(parts...)
JoinTopicCall ==
  /\ ev' = [op |-> "JoinTopic", parts |-> parts, result |-> JoinTopic(parts)]
  /\ UNCHANGED <<rvVars, valVars, adVars, coVars, dvVars>>

----------------------------------------------------------------------------
(* Device *)

MaxIdents == 2

IDSep == <<"_", "_">>

\* the tokens IDSanitizer replaces by IDSep
UnsafeChars == {" ", ":", ".", "!", "?", TopicSeparator}

RECURSIVE IDSanitizer(_)
\* IDSanitizer.Replace(str)
IDSanitizer(str) ==
  IF str = <<>> THEN <<>>
  ELSE (IF Head(str) \in UnsafeChars THEN IDSep ELSE <<Head(str)>>)
         \o IDSanitizer(Tail(str))

DefaultOrigin ==
  [nil |-> FALSE, Name |-> "hqtt", SoftwareVersion |-> "master"]

NilOrigin == [nil |-> TRUE, Name |-> "", SoftwareVersion |-> ""]

Origins == {NilOrigin, [nil |-> FALSE, Name |-> "app", SoftwareVersion |-> "1"]}

Identifiers == { <<>>, <<"a">>, <<"x", TopicSeparator, "y", " ", "z">> }

DeviceConnections == { <<>>, <<[Kind |-> "mac", Value |-> "v"]>> }

\* the Devices whose id is computed: every field that Device.ID or
\* Device.Valid reads
Devices ==
  [ DiscoveryID : {<<>>, <<"d", TopicSeparator, "x">>},
    Identifiers : SeqsUpTo(Identifiers, MaxIdents),
    Name : {<<>>, <<"n", ".", "1">>},
    Serial : {<<>>, <<"s", ":", "1">>},
    Manufacturer : {<<>>, <<"m", "!">>},
    Model : {<<>>, <<"o", "?">>},
    ModelID : {<<>>, <<"i">>},
    HardwareVersion : {<<>>},
    Connections : DeviceConnections,
    Origin : {NilOrigin} ]

\* the closure writeSep of Device.ID
WriteSep(result) == IF Len(result) > 0 THEN result \o IDSep ELSE result

RECURSIVE WriteIdentifiers(_, _, _)
\* the loop of Device.ID over d.Identifiers from index i on
WriteIdentifiers(idents, i, result) ==
  IF i > Len(idents)
    THEN result
    ELSE LET written == result \o IDSanitizer(idents[i])
         IN WriteIdentifiers(idents, i + 1,
              IF i < Len(idents) THEN WriteSep(written) ELSE written)

\* one of the blocks 'if d.X != "" { writeSep(); result.WriteString(...) }'
WriteField(result, x) ==
  IF x # <<>> THEN WriteSep(result) \o IDSanitizer(x) ELSE result

\* Device.ID
DeviceID(d) ==
  IF d.DiscoveryID # <<>>
    THEN d.DiscoveryID
    ELSE WriteField(WriteField(WriteField(WriteField(WriteField(
           WriteIdentifiers(d.Identifiers, 1, <<>>),
           d.Name), d.Serial), d.Manufacturer), d.Model), d.ModelID)

\* Device.Valid accepting every Device
ValidAlways(d) == "nil"

\* Device.Valid: "nil" or the error it returns
Valid(d) ==
  IF Len(d.Identifiers) = 0 /\ Len(d.Connections) = 0
    THEN "ErrInvalidDevice"
    ELSE "nil"

\* a call d.ID()
ID ==
  /\ ev' = [op |-> "ID", result |-> DeviceID(device)]
  /\ UNCHANGED <<rvVars, valVars, adVars, coVars, dvVars>>

----------------------------------------------------------------------------
(* Discovery documents: the helpers of package discovery *)

\* What a helper does with the encoder and what it returns: out is the
\* sequence of object members (key k, value v) it writes, err the errors it
\* returns, each the sentinel it wraps (is) and the name it is prefixed with;
\* err = <<>> is the nil error.
Nothing == [out |-> <<>>, err |-> <<>>]

\* e.WriteToken(jsontext.String(k)) followed by the encoding of v
WriteMember(k, v) == [out |-> <<[k |-> k, v |-> v]>>, err |-> <<>>]

\* fmt.Errorf("%s: %w", name, sentinel)
Errorf(name, sentinel) == [out |-> <<>>, err |-> <<[name |-> name, is |-> sentinel]>>]

RECURSIVE JoinAll(_)
\* errors.Join(rs...) with its arguments evaluated from left to right: every
\* argument writes to the encoder, every non-nil error is kept
JoinAll(rs) ==
  IF rs = <<>>
    THEN Nothing
    ELSE LET rest == JoinAll(Tail(rs))
         IN [out |-> Head(rs).out \o rest.out, err |-> Head(rs).err \o rest.err]

ErrorsJoin(rs) == JoinAll(rs)

\* the zero value of a comparable field ("" for a string, 0, false)
ZeroValue == ""

\* a pointer: nil, or the address of x
NilPtr == [nil |-> TRUE]

Ptr(x) == [nil |-> FALSE, x |-> x]

MaybeMarshalTopic(k, topic) ==
  IF topic = <<>> THEN Nothing ELSE WriteMember(k, topic)

MarshalRequiredTopic(name, k, topic) ==
  IF topic = <<>>
    THEN Errorf(name, "ErrTopicRequired")
    ELSE MaybeMarshalTopic(k, topic)

MarshalRequiredValueTopic(name, k, v, prefix) ==
  MarshalRequiredTopic(name, k, FullyQualifiedTopic(v, prefix))

MarshalRequiredRemoteValueTopic(name, k, v, prefix) ==
  MarshalRequiredTopic(name, k, FullyQualifiedTopic(v, prefix))

MaybeMarshalValueTopic(k, v, prefix) ==
  MaybeMarshalTopic(k, FullyQualifiedTopic(v, prefix))

MaybeMarshalRemoteValueTopic(k, v, prefix) ==
  MaybeMarshalTopic(k, FullyQualifiedTopic(v, prefix))

\* MaybeMarshalStateAndCommandTopics without the test for a single nil cell
MarshalBothTopics(name, sk, st, ck, c, prefix) ==
  IF st.nil /\ c.nil
    THEN Nothing
    ELSE ErrorsJoin(<< MaybeMarshalValueTopic(sk, st, prefix),
                       MaybeMarshalRemoteValueTopic(ck, c, prefix) >>)

MaybeMarshalStateAndCommandTopics(name, sk, st, ck, c, prefix) ==
  IF st.nil /\ c.nil
    THEN Nothing
    ELSE IF st.nil \/ c.nil
      THEN Errorf(name, "ErrMissingStateOrCommandTopic")
      ELSE ErrorsJoin(<< MarshalRequiredValueTopic(name, sk, st, prefix),
                         MarshalRequiredRemoteValueTopic(name, ck, c, prefix) >>)

MaybeMarshalStd(k, v) ==
  IF v.nil THEN Nothing ELSE WriteMember(k, v.x)

MarshalStd(name, k, v) ==
  IF v.nil THEN Errorf(name, "ErrValueRequired") ELSE MaybeMarshalStd(k, v)

MaybeMarshalStdSlice(k, v) ==
  IF Len(v) = 0 THEN Nothing ELSE WriteMember(k, v)

MarshalStdComparable(name, k, v) ==
  IF v = ZeroValue
    THEN Errorf(name, "ErrValueRequired")
    ELSE MaybeMarshalStd(k, Ptr(v))

MaybeMarshalStdComparable(k, v) ==
  IF v = ZeroValue THEN Nothing ELSE MaybeMarshalStd(k, Ptr(v))

MarshalStdIfNot(not, vk, v) ==
  IF v = not \/ v = ZeroValue THEN Nothing ELSE WriteMember(vk, v)

----------------------------------------------------------------------------
(* Discovery documents: platforms and components *)

LightOnCommandTypeLast == "last"

LightOnCommandTypeFirst == "first"

DefaultLightOnCommandType == LightOnCommandTypeLast

\* Light.MarshalDiscoveryTo
LightMarshalDiscoveryTo(l, prefix) ==
  ErrorsJoin(<<
    MarshalStdIfNot(DefaultLightOnCommandType, "on_cmd_type", l.OnCommandType),
    MaybeMarshalStdComparable("opt", l.Optimistic),
    MaybeMarshalValueTopic("stat_t", l.State, prefix),
    MarshalRequiredRemoteValueTopic("command", "cmd_t", l.Command, prefix),
    MaybeMarshalStdComparable("pl_on", l.CustomPowerStateValues.On),
    MaybeMarshalStdComparable("pl_off", l.CustomPowerStateValues.Off),
    MaybeMarshalStateAndCommandTopics("color mode",
      "clrm_stat_t", l.ColorMode, "clrm_cmd_t", l.ColorModeCommand, prefix),
    MaybeMarshalStd("sup_clrm", Ptr(l.SupportedColorModes)),
    MaybeMarshalStateAndCommandTopics("brightness",
      "bri_stat_t", l.Brightness, "bri_cmd_t", l.BrightnessCommand, prefix),
    MaybeMarshalStdComparable("bri_scl", l.BrightnessScale),
    MaybeMarshalStateAndCommandTopics("color temperature",
      "clr_temp_stat_t", l.ColorTemperature,
      "clr_temp_cmd_t", l.ColorTemperatureCommand, prefix),
    MaybeMarshalStdComparable("clr_temp_k", l.ColorTemperatureInKelvin),
    MaybeMarshalStdComparable("max_k", l.MaxKelvin),
    MaybeMarshalStdComparable("min_k", l.MinKelvin),
    MaybeMarshalStdComparable("max_mirs", l.MaxMireds),
    MaybeMarshalStdComparable("min_mirs", l.MinMireds),
    MaybeMarshalStateAndCommandTopics("hue sat",
      "hs_stat_t", l.ColorTemperature, "hs_cmd_t", l.ColorTemperatureCommand, prefix),
    MaybeMarshalStateAndCommandTopics("xy",
      "xy_cmd_t", l.XY, "xy_stat_t", l.XYCommand, prefix),
    MaybeMarshalStateAndCommandTopics("rgb",
      "rgb_stat_t", l.RGB, "rgb_cmd_t", l.RGBCommand, prefix),
    MaybeMarshalStateAndCommandTopics("rgbw",
      "rgbW_stat_t", l.RGBW, "rgbW_cmd_t", l.RGBWCommand, prefix),
    MaybeMarshalStateAndCommandTopics("rgbww",
      "rgbWW_stat_t", l.RGBWW, "rgbWW_cmd_t", l.RGBWWCommand, prefix),
    MaybeMarshalRemoteValueTopic("whit_cmd_t", l.WhiteBrightnessCommand, prefix),
    MaybeMarshalStdComparable("whit_scl", l.WhiteScale),
    MaybeMarshalStateAndCommandTopics("effect",
      "fx_stat_t", l.Effect, "fx_cmd_t", l.EffectCommand, prefix),
    MaybeMarshalStdSlice("fx_list", l.PossibleEffects) >>)

\* Sensor.MarshalDiscoveryTo
SensorMarshalDiscoveryTo(sn, prefix) ==
  ErrorsJoin(<<
    MaybeMarshalStdComparable("exp_after", sn.ExpireMeasurementsAfter),
    MaybeMarshalStdComparable("frc_upd", sn.ForceUpdate),
    MaybeMarshalValueTopic("json_attr_t", sn.Attributes, prefix),
    MaybeMarshalStdSlice("opts", sn.EnumOptions),
    MaybeMarshalStdComparable("sug_dsp_prc", sn.SuggestedDisplayPrecision),
    MaybeMarshalStdComparable("stat_cla", sn.StateClass),
    MarshalRequiredValueTopic("state", "stat_t", sn.State, prefix),
    MaybeMarshalStdComparable("unit_of_meas", sn.UnitOfMeasurement) >>)

\* BinarySensor.MarshalDiscoveryTo (the embedded Sensor's fields are promoted)
BinarySensorMarshalDiscoveryTo(bs, prefix) ==
  ErrorsJoin(<<
    SensorMarshalDiscoveryTo(bs, prefix),
    MaybeMarshalStdComparable("off_dly", bs.OffDelay) >>)

\* Platform.PlatformName
PlatformName(platform) == platform.kind

\* Platform.MarshalDiscoveryTo
MarshalDiscoveryTo(platform, prefix) ==
  CASE platform.kind = "light" -> LightMarshalDiscoveryTo(platform, prefix)
    [] platform.kind = "sensor" -> SensorMarshalDiscoveryTo(platform, prefix)
    [] platform.kind = "binary_sensor" -> BinarySensorMarshalDiscoveryTo(platform, prefix)

\* jsontext.Null
Null == [null |-> TRUE]

\* Component.MarshalJSONTo: the members of the component's object and the
\* joined error
MarshalJSONTo(c) ==
  LET nameToken == IF c.Name # ZeroValue THEN c.Name ELSE Null
  IN ErrorsJoin(<<
       MarshalStdComparable("platform", "p", PlatformName(c.Platform)),
       WriteMember("name", nameToken),
       MaybeMarshalStdComparable("ent_cat", c.EntityCategory),
       MaybeMarshalStdComparable("ic", c.Icon),
       MaybeMarshalStd("picture", c.Picture),
       MarshalRequiredValueTopic("availability", "avty_t", c.Availability, c.TopicPrefix),
       MaybeMarshalStdComparable("pl_avail", c.CustomAvailabilityValues.Available),
       MaybeMarshalStdComparable("pl_not_avail", c.CustomAvailabilityValues.Unavailable),
       MaybeMarshalStdComparable("def_ent_id", c.DefaultEntityID),
       MaybeMarshalStdComparable("uniq_id", c.UniqueID),
       MaybeMarshalStdComparable("qos", c.WriteOptions.QoS),
       MaybeMarshalStdComparable("ret", c.WriteOptions.Retain),
       MarshalDiscoveryTo(c.Platform, c.TopicPrefix) >>)

----------------------------------------------------------------------------
(* Discovery documents: the components that are assembled *)

MaxSet == 2

ComponentFields ==
  { "TopicPrefix", "Name", "EntityCategory", "Icon", "Picture", "Availability",
    "Available", "Unavailable", "DefaultEntityID", "UniqueID", "QoS", "Retain" }

LightFields ==
  { "OnCommandType", "Optimistic", "State", "Command", "On", "Off",
    "ColorMode", "ColorModeCommand", "SupportedColorModes",
    "Brightness", "BrightnessCommand", "BrightnessScale",
    "ColorTemperature", "ColorTemperatureCommand", "ColorTemperatureInKelvin",
    "MaxKelvin", "MinKelvin", "MaxMireds", "MinMireds",
    "HueSat", "HueSatCommand", "XY", "XYCommand", "RGB", "RGBCommand",
    "RGBW", "RGBWCommand", "RGBWW", "RGBWWCommand",
    "WhiteBrightnessCommand", "WhiteScale",
    "Effect", "EffectCommand", "PossibleEffects" }

SensorFields ==
  { "ExpireMeasurementsAfter", "ForceUpdate", "Attributes", "EnumOptions",
    "SuggestedDisplayPrecision", "StateClass", "State", "UnitOfMeasurement" }

BinarySensorFields == SensorFields \cup {"OffDelay"}

PlatformFields(kind) ==
  CASE kind = "light" -> LightFields
    [] kind = "sensor" -> SensorFields
    [] kind = "binary_sensor" -> BinarySensorFields

\* the fields of type *mqtt.Value or *mqtt.RemoteValue
CellFields ==
  { "Availability", "State", "Command", "ColorMode", "ColorModeCommand",
    "Brightness", "BrightnessCommand", "ColorTemperature",
    "ColorTemperatureCommand", "HueSat", "HueSatCommand", "XY", "XYCommand",
    "RGB", "RGBCommand", "RGBW", "RGBWCommand", "RGBWW", "RGBWWCommand",
    "WhiteBrightnessCommand", "Effect", "EffectCommand", "Attributes" }

\* the fields of a slice type
SliceFields == {"SupportedColorModes", "PossibleEffects", "EnumOptions"}

\* the fields tagged hqtt:"required"
RequiredFields(kind) ==
  {"Availability", "UniqueID"} \cup (IF kind = "light" THEN {"Command"} ELSE {"State"})

\* The values a field is given: level 0 is the zero value of its type (a nil
\* cell, an empty slice, a nil pointer, "", 0, false); level 1 is a value that
\* is set (a cell whose topic is the field's name, so that every cell has its
\* own topic); level 2 is a cell constructed with the empty topic, or the
\* default on-command type.
FieldValue(f, lvl) ==
  IF f \in CellFields
    THEN (IF lvl = 0 THEN NilCell ELSE IF lvl = 1 THEN NewCell(<<f>>) ELSE NewCell(<<>>))
  ELSE IF f \in SliceFields THEN (IF lvl = 0 THEN <<>> ELSE <<"x">>)
  ELSE IF f = "Picture" THEN (IF lvl = 0 THEN NilPtr ELSE Ptr("u"))
  ELSE IF f = "TopicPrefix" THEN (IF lvl = 0 THEN <<>> ELSE <<"p">>)
  ELSE IF f = "OnCommandType"
    THEN (IF lvl = 0 THEN ZeroValue
          ELSE IF lvl = 1 THEN LightOnCommandTypeFirst ELSE LightOnCommandTypeLast)
  ELSE IF lvl = 0 THEN ZeroValue ELSE "x"

MaxLevel(f) == IF f \in CellFields \cup {"OnCommandType"} THEN 2 ELSE 1

\* a platform of the kind, its fields at the levels g
PlatformOf(kind, g) ==
  LET fields == [f \in PlatformFields(kind) |-> FieldValue(f, g[f])]
  IN IF kind = "light"
       THEN fields @@ [kind |-> kind,
                       CustomPowerStateValues |-> [On |-> fields.On, Off |-> fields.Off]]
       ELSE fields @@ [kind |-> kind]

\* a Component around a platform of the kind, its fields at the levels g
ComponentOf(kind, g) ==
  [ Platform |-> PlatformOf(kind, g),
    TopicPrefix |-> FieldValue("TopicPrefix", g["TopicPrefix"]),
    Name |-> FieldValue("Name", g["Name"]),
    EntityCategory |-> FieldValue("EntityCategory", g["EntityCategory"]),
    Icon |-> FieldValue("Icon", g["Icon"]),
    Picture |-> FieldValue("Picture", g["Picture"]),
    Availability |-> FieldValue("Availability", g["Availability"]),
    CustomAvailabilityValues |->
      [ Available |-> FieldValue("Available", g["Available"]),
        Unavailable |-> FieldValue("Unavailable", g["Unavailable"]) ],
    DefaultEntityID |-> FieldValue("DefaultEntityID", g["DefaultEntityID"]),
    UniqueID |-> FieldValue("UniqueID", g["UniqueID"]),
    WriteOptions |->
      [ QoS |-> FieldValue("QoS", g["QoS"]),
        Retain |-> FieldValue("Retain", g["Retain"]) ] ]

AllFields(kind) == ComponentFields \cup PlatformFields(kind)

\* a component with every required field set and nothing else
BaseLevels(kind) ==
  [f \in AllFields(kind) |-> IF f \in RequiredFields(kind) THEN 1 ELSE 0]

RECURSIVE SmallSubsets(_, _)
\* the subsets of F of at most n elements
SmallSubsets(F, n) ==
  IF n = 0
    THEN {{}}
    ELSE LET prev == SmallSubsets(F, n - 1)
         IN prev \cup { S \cup {f} : S \in prev, f \in F }

\* the levels, none above top, that differ from BaseLevels in at most n of
\* the fields F
LevelsOf(kind, F, n, top) ==
  UNION { { [f \in AllFields(kind) |-> IF f \in S THEN h[f] ELSE BaseLevels(kind)[f]] :
              h \in { h \in [S -> 0..top] :
                        \A f \in S : h[f] <= MaxLevel(f) /\ h[f] # BaseLevels(kind)[f] } } :
          S \in SmallSubsets(F, n) }

\* the components that are assembled: at most MaxSet fields differ from a
\* component with its required fields set
Components ==
  UNION { { ComponentOf(kind, g) : g \in LevelsOf(kind, AllFields(kind), MaxSet, 2) } :
          kind \in PlatformKinds }

\* the components that are configured together: a Sensor or a Light, its
\* required fields set or not, the Light's color mode state cell set or not
FewComponents ==
  UNION { { ComponentOf(kind, g) :
              g \in LevelsOf(kind,
                             RequiredFields(kind) \cup (PlatformFields(kind) \cap {"ColorMode"}),
                             MaxSet, 1) } :
          kind \in {"sensor", "light"} }

ComponentKeys == {"c1", "c2"}

\* the maps handed to Configure: none, one or two of FewComponents
ComponentMaps ==
  UNION { [keys -> FewComponents] : keys \in SUBSET ComponentKeys }

----------------------------------------------------------------------------
(* Device.Configure *)

MaxSent == 1

DiscoveryPrefixes == { <<"h">>, <<"h", TopicSeparator>> }

\* a string-valued struct field tagged omitempty
OmitEmpty(k, v) == IF Len(v) = 0 THEN <<>> ELSE <<[k |-> k, v |-> v]>>

\* json.MarshalEncode of a Device: its struct tags (DiscoveryID and Origin are
\* tagged "-")
DeviceJSON(d) ==
  OmitEmpty("name", d.Name) \o OmitEmpty("sn", d.Serial)
    \o OmitEmpty("mf", d.Manufacturer) \o OmitEmpty("mdl", d.Model)
    \o OmitEmpty("mdl_id", d.ModelID) \o OmitEmpty("cns", d.Connections)
    \o OmitEmpty("hw", d.HardwareVersion) \o OmitEmpty("ids", d.Identifiers)

\* json.MarshalEncode of an Origin: its struct tags
OriginJSON(o) ==
  <<[k |-> "name", v |-> o.Name]>> \o OmitEmpty("sw", o.SoftwareVersion)

\* cmp.Or(d.Origin, &DefaultOrigin)
OriginOr(d) == IF d.Origin.nil THEN DefaultOrigin ELSE d.Origin

RECURSIVE InlineFrom(_, _, _, _)
\* the loop of MaybeInlineMarshalStd, the map's keys visited in the given
\* order, from the i-th on; json.MarshalEncode of a component calls its
\* MarshalJSONTo and returns its error
InlineFrom(v, order, i, err) ==
  IF i > Len(order)
    THEN err
    ELSE LET vv == MarshalJSONTo(v[order[i]])
         IN InlineFrom(v, order, i + 1,
              ErrorsJoin(<< err,
                            [out |-> <<[k |-> order[i], v |-> vv.out]>>, err |-> vv.err] >>))

MaybeInlineMarshalStd(v, order) ==
  IF Cardinality(DOMAIN v) = 0 THEN Nothing ELSE InlineFrom(v, order, 1, Nothing)

\* the document Configure assembles and the joined error
Document(d, comps, order) ==
  LET inline == MaybeInlineMarshalStd(comps, order)
  IN ErrorsJoin(<<
       MarshalStd("device", "dev", Ptr(DeviceJSON(d))),
       MarshalStd("origin", "o", Ptr(OriginJSON(OriginOr(d)))),
       [out |-> <<[k |-> "cmps", v |-> inline.out]>>, err |-> inline.err] >>)

\* mqtt.WriteOptions{}
ZeroWriteOptions == [Retain |-> FALSE]

\* mqtt.WriteOptions{Retain: true}
ConfigureOptions == [Retain |-> TRUE]

\* fmt.Sprintf("%s/device/%s/config", discoveryPrefix, id)
ConfigTopic(discoveryPrefix, id) ==
  discoveryPrefix \o <<TopicSeparator, "d", "e", "v", "i", "c", "e", TopicSeparator>>
    \o id \o <<TopicSeparator, "c", "o", "n", "f", "i", "g">>

\* 'if err != nil' never taken
MarshalFailedNever(err) == FALSE

\* 'if err != nil' after the document is assembled
MarshalFailed(err) == err # <<>>

\* the error a call returns: nil, or one error that is not a joined one
ReturnsNil == <<>>

Returns(sentinel) == <<[name |-> "", is |-> sentinel]>>

\* Device.Configure(ctx, w, discoveryPrefix, components), the range over the
\* map visiting its keys in the given order, the Writer answering ok
Configure(discoveryPrefix, order, ok) ==
  /\ Len(sent) < MaxSent
  /\ LET call == [op |-> "Configure", discoveryPrefix |-> discoveryPrefix,
                  order |-> order, ok |-> ok]
         doc == Document(device, components, order)
     IN IF Valid(device) # "nil"
          THEN /\ ev' = call @@ [err |-> Returns(Valid(device))]
               /\ sent' = sent
          ELSE IF MarshalFailed(doc.err)
            THEN /\ ev' = call @@ [err |-> doc.err]
                 /\ sent' = sent
            ELSE /\ sent' = Append(sent,
                      [ topic |-> ConfigTopic(discoveryPrefix, DeviceID(device)),
                        options |-> ConfigureOptions,
                        payload |-> doc.out ])
                 /\ ev' = call @@ [err |-> IF ok THEN ReturnsNil ELSE Returns("ErrTransport")]
  /\ UNCHANGED <<rvVars, valVars, adVars, coVars, parts, device, components>>

\* json.MarshalEncode of the component under key: Component.MarshalJSONTo
ComponentMarshal(key) ==
  /\ key \in DOMAIN components
  /\ LET doc == MarshalJSONTo(components[key])
     IN ev' = [op |-> "MarshalJSONTo", key |-> key, out |-> doc.out, err |-> doc.err]
  /\ UNCHANGED <<rvVars, valVars, adVars, coVars, dvVars>>

----------------------------------------------------------------------------
(* Specifications *)

\* a Component around a Sensor, never used
IdleComponent == NewComponent("sensor", [i \in LightCells |-> NilCell], <<>>)

Init ==
  /\ \E um \in {"nil", "uint"} : NewRemoteValue(um)
  /\ NewValue("uint")
  /\ NewAdapter
  /\ IdleComponent
  /\ IdleDevice
  /\ ev = Other

Next ==
  \/ \E t \in Topics, p \in Payloads : ServeMQTT(t, p)
  \/ \E t \in Topics : ServeMQTTNil(t, Itoa(1))
  \/ RemoteGet
  \/ \E c \in Clients : Watch(c)
  \/ \E c \in Clients : Unwatch(c)
  \/ \E id \in UnknownIds : UnwatchUnknown(id)
  \/ \E k \in Awaits, cause \in Causes : Cancel(k, cause)
  \/ \E k \in Awaits, pred \in Preds : AwaitWatch(k, pred)
  \/ \E k \in Awaits : AwaitDone(k)
  \/ \E k \in Awaits : AwaitCancelled(k)
  \/ \E k \in Awaits : AwaitReturn(k)

\* the RemoteValue cell with its observers and Await calls
Spec == Init /\ [][Next]_vars

InitValue ==
  /\ NewRemoteValue("uint")
  /\ \E m \in Marshalers : NewValue(m)
  /\ NewAdapter
  /\ IdleComponent
  /\ IdleDevice
  /\ ev = Other

NextValue ==
  \/ \E prefix \in Prefixes, x \in Values, ok \in BOOLEAN : Write(prefix, x, ok)
  \/ Get
  \/ RepublishRead
  \/ \E prefix \in Prefixes, ok \in BOOLEAN : RepublishWrite(prefix, ok)

\* the Value cell with its writers and a Republish
SpecValue == InitValue /\ [][NextValue]_vars

InitCells ==
  /\ \E um \in {"nil", "uint"} : NewRemoteValue(um)
  /\ \E m \in {"uint", "nonzero"} : NewValue(m)
  /\ NewAdapter
  /\ IdleComponent
  /\ IdleDevice
  /\ ev = Other

NextCells ==
  \/ \E x \in Values, ok \in BOOLEAN : Write(<<"p">>, x, ok)
  \/ Get
  \/ RepublishRead
  \/ \E ok \in BOOLEAN : RepublishWrite(<<"p">>, ok)
  \/ \E t \in Topics, p \in Payloads : ServeMQTT(t, p)
  \/ RemoteGet

\* a Value cell and a RemoteValue cell, their writers, deliveries and readers
\* (every write under the one prefix "p": Get does not depend on the topic)
SpecCells == InitCells /\ [][NextCells]_vars

InitAdapter ==
  /\ NewRemoteValue("uint")
  /\ NewValue("uint")
  /\ NewAdapter
  /\ IdleComponent
  /\ IdleDevice
  /\ ev = Other

NextAdapter ==
  \/ \E p \in Threads : ReconnectLock(p)
  \/ \E p \in Threads : ReconnectCollect(p)
  \/ \E p \in Threads, ok \in BOOLEAN : ReconnectSend(p, ok)
  \/ \E p \in Threads, subs \in SeqsUpTo(Subscriptions, MaxArgs) : SubscribeLock(p, subs)
  \/ \E p \in Threads : SubscribeTrack(p)
  \/ \E p \in Threads, ok \in BOOLEAN : SubscribeSend(p, ok)
  \/ \E p \in Threads, topics \in SeqsUpTo(AdTopics, MaxArgs) : UnsubscribeLock(p, topics)
  \/ \E p \in Threads : UnsubscribeDelete(p)
  \/ \E p \in Threads, ok \in BOOLEAN : UnsubscribeSend(p, ok)

\* the subscription manager called by concurrent threads and by the
\* connection manager's reconnect callback
SpecAdapter == InitAdapter /\ [][NextAdapter]_vars

NextRouter ==
  \/ NextAdapter
  \/ \E t \in AdTopics : Route(t)

\* the subscription manager, and publishes received on its topics
SpecRouter == InitAdapter /\ [][NextRouter]_vars

InitComponent ==
  /\ NewRemoteValue("uint")
  /\ NewValue("uint")
  /\ NewAdapter
  /\ \E kind \in PlatformKinds, light \in Lights, prefix \in TopicPrefixes :
        /\ kind # "light" => light = [i \in LightCells |-> NilCell]
        /\ NewComponent(kind, light, prefix)
  /\ IdleDevice
  /\ ev = Other

NextComponent ==
  \/ \E ok \in BOOLEAN : ComponentSubscribe(ok)
  \/ \E ok \in BOOLEAN : ComponentUnsubscribe(ok)
  \/ \E t \in MsgTopics, p \in MsgPayloads : Handle(t, p)

\* a Component around a Sensor, a BinarySensor or a Light, its Subscriber
\* and the messages its handler receives
SpecComponent == InitComponent /\ [][NextComponent]_vars

InitDelivery ==
  /\ NewRemoteValue("uint")
  /\ NewValue("uint")
  /\ NewAdapter
  /\ IdleComponent
  /\ IdleDevice
  /\ ev = Other

NextDelivery ==
  \/ \E p \in Threads, t \in DeliveryTopics, b \in DeliveryPayloads : DeliverCall(p, t, b)
  \/ \E p \in Threads : DeliverLock(p)
  \/ \E p \in Threads : DeliverBody(p)
  \/ \E p \in Threads, react \in Reactions : DeliverInvoke(p, react)
  \/ \E p \in Threads : DeliverReturn(p)
  \/ \E c \in Clients : WatchLocked(c)
  \/ GetLocked

\* router threads delivering to one RemoteValue concurrently, its observers
\* calling back into the cell or not
SpecDelivery == InitDelivery /\ [][NextDelivery]_vars

InitTopic ==
  /\ NewRemoteValue("uint")
  /\ NewValue("uint")
  /\ NewAdapter
  /\ IdleComponent
  /\ parts \in SeqsUpTo(Segments, MaxParts)
  /\ device = <<>>
  /\ components = <<>>
  /\ sent = <<>>
  /\ ev = Other

NextTopic == JoinTopicCall

\* JoinTopic applied to every list of at most MaxParts segments
SpecTopic == InitTopic /\ [][NextTopic]_vars


InitDevice ==
  /\ NewRemoteValue("uint")
  /\ NewValue("uint")
  /\ NewAdapter
  /\ IdleComponent
  /\ parts = <<>>
  /\ device \in Devices
  /\ components \in {<<>>, [k \in {"c1"} |-> ComponentOf("sensor", BaseLevels("sensor"))]}
  /\ sent = <<>>
  /\ ev = Other

NextDevice ==
  \/ ID
  \/ \E prefix \in DiscoveryPrefixes, order \in Orders(components), ok \in BOOLEAN :
        Configure(prefix, order, ok)

\* a Device, its id and its configuration
SpecDevice == InitDevice /\ [][NextDevice]_vars

\* a Device with its fields set or not, and its origin
NewDevice(ids, name, hw, origin) ==
  [ DiscoveryID |-> <<>>, Identifiers |-> ids, Name |-> name, Serial |-> <<>>,
    Manufacturer |-> <<>>, Model |-> <<>>, ModelID |-> <<>>,
    HardwareVersion |-> hw, Connections |-> <<>>, Origin |-> origin ]

\* a Device that passes Valid and one that does not, with and without an
\* origin of its own
FewDevices ==
  { NewDevice(ids, <<"n">>, <<"h">>, origin) :
      ids \in {<<>>, <<<<"a">>>>}, origin \in Origins }

InitDiscovery ==
  /\ NewRemoteValue("uint")
  /\ NewValue("uint")
  /\ NewAdapter
  /\ IdleComponent
  /\ parts = <<>>
  /\ device = <<>>
  /\ components \in { [k \in {"c1"} |-> c] : c \in Components }
  /\ sent = <<>>
  /\ ev = Other

NextDiscovery == ComponentMarshal("c1")

\* the discovery object of one component
SpecDiscovery == InitDiscovery /\ [][NextDiscovery]_vars

InitConfigure ==
  /\ NewRemoteValue("uint")
  /\ NewValue("uint")
  /\ NewAdapter
  /\ IdleComponent
  /\ parts = <<>>
  /\ device \in FewDevices
  /\ components \in ComponentMaps
  /\ sent = <<>>
  /\ ev = Other

NextConfigure ==
  \E order \in Orders(components), ok \in BOOLEAN : Configure(<<"h">>, order, ok)

\* the discovery document of a Device and its components
SpecConfigure == InitConfigure /\ [][NextConfigure]_vars

----------------------------------------------------------------------------
(* Claims *)

Called(calls) == { calls[i][1] : i \in 1..Len(calls) }

Ended(k) == aw[k].pc \in {"returned", "panicked"}

\* C1: after id := Watch(cb) followed by Unwatch(id), no later successful
\* delivery invokes cb, whatever cb's position in the registration order.
C1_UnwatchedNeverInvoked ==
  ev.op = "ServeMQTT" =>
    \A c \in Clients : hst[c] = "released" => Cb(c) \notin Called(ev.calls)

\* C2: when Await returns, on either path, its transient observer is no longer
\* in the observer list, and with no other Watch or Unwatch in between the
\* list is again the list from before the call.
C2_AwaitRemovesItsObserver ==
  [][ \A k \in Awaits :
        (aw[k].pc = "unwatch" /\ aw'[k].pc = "returned") =>
          /\ Tr(k) \notin Range(watchers')
          /\ aw[k].alone => watchers = Append(watchers', Tr(k)) ]_vars

\* C3: Await returns only after a delivery made after its registration
\* satisfied the filter, and then it returns (v, nil) with v the first such
\* delivered value.
C3_AwaitReturnsFirstSatisfying ==
  \A k \in Awaits :
    /\ (aw[k].pc \in {"unwatch", "returned", "panicked"} /\ aw[k].err = "nil") =>
         (aw[k].first # NoVal /\ aw[k].got = aw[k].first)
    /\ (Ended(k) /\ aw[k].err = "nil") => aw[k].pc = "returned"

\* C4: an Await whose context is cancelled, with no satisfying value delivered,
\* ends by returning the cancellation's cause as its error.
C4_CancelledAwaitReturnsCause ==
  \A k \in Awaits :
    (Ended(k) /\ aw[k].ctx # "live" /\ aw[k].first = NoVal) =>
      (aw[k].pc = "returned" /\ aw[k].err = aw[k].ctx)

\* C5: one delivery of a decodable payload on the cell's topic invokes each of
\* the N registered observers exactly once, in registration order, with the
\* decoded value, and the delivery call returns normally.
C5_DeliveryInvokesAllInOrder ==
  (ev.op = "ServeMQTT" /\ ev.cell = "rv" /\ ev.sameTopic /\ ~ev.err) =>
    /\ ~ev.fault
    /\ ev.calls = [i \in 1..Len(watchers) |-> <<watchers[i], ev.val>>]

\* C6: a delivery on a topic that is not exactly the cell's topic, or to a nil
\* cell, changes neither the stored value, the ever-received flag nor the
\* observer list, and invokes no observer.
C6_OtherTopicIsNoOp ==
  [][ (ev'.op = "ServeMQTT" /\ (ev'.cell = "nil" \/ ~ev'.sameTopic)) =>
        /\ rvV' = rvV
        /\ rvInitialized' = rvInitialized
        /\ watchers' = watchers
        /\ aw' = aw
        /\ ev'.calls = <<>>
        /\ ~ev'.fault ]_vars

\* a delivery on another topic reached a cell that holds a value and observers
C6_Witness ==
  /\ ev.op = "ServeMQTT" /\ ev.cell = "rv" /\ ~ev.sameTopic
  /\ rvInitialized /\ rvV # 0
  /\ Len(watchers) >= 2

\* C7: a delivery on the cell's topic whose payload does not decode keeps the
\* stored value and the ever-received flag, invokes no observer and returns
\* normally; a valid delivery right after it is processed.
C7_DecodeErrorKeepsState ==
  [][ /\ (ev'.op = "ServeMQTT" /\ ev'.err) =>
           /\ rvV' = rvV
           /\ rvInitialized' = rvInitialized
           /\ watchers' = watchers
           /\ aw' = aw
           /\ ev'.calls = <<>>
           /\ ~ev'.fault
      /\ (/\ ev.op = "ServeMQTT" /\ ev.err
          /\ ev'.op = "ServeMQTT" /\ ev'.cell = "rv" /\ ev'.sameTopic /\ ~ev'.err) =>
           (rvInitialized' /\ rvV' = ev'.val) ]_vars

\* a payload that does not decode reached a cell that holds a value and observers
C7_Witness ==
  /\ ev.op = "ServeMQTT" /\ ev.err
  /\ rvInitialized /\ rvV # 0
  /\ Len(watchers) >= 2

\* C8: Unwatch with an id that identifies no registered observer (negative, or
\* at or beyond the number of observers) leaves the observer list unchanged
\* and returns without faulting.
C8_UnknownIdIsNoOp ==
  [][ ev'.op = "UnwatchUnknown" => (watchers' = watchers /\ ~ev'.fault) ]_vars

\* C9: the id Watch returned keeps identifying the same observer for as long as
\* that observer is registered.
C9_IdsAreStable ==
  \A c \in Clients :
    (hst[c] = "watching" /\ Cb(c) \in Range(watchers)) =>
      (hid[c] + 1 <= Len(watchers) /\ watchers[hid[c] + 1] = Cb(c))

\* C10: a Write on a cell with no marshaler fails with ErrNoMarshaler, a Write
\* whose marshaler fails returns that error; either way the stored value and
\* the ever-written flag are unchanged and no transport write is made.
C10_FailedWriteKeepsState ==
  [][ (ev'.op = "Write" /\ (ev'.noMarshaler \/ ev'.marshalErr)) =>
        /\ ev'.err = (IF ev'.noMarshaler THEN "ErrNoMarshaler" ELSE "marshal")
        /\ valV' = valV
        /\ valInitialized' = valInitialized
        /\ writes' = writes ]_vars

\* the marshaler refused a value on a cell that holds an earlier value
C10_Witness ==
  /\ ev.op = "Write" /\ ev.marshalErr /\ ev.err = "marshal"
  /\ valInitialized /\ valV # 0
  /\ Len(writes) = 1

Serialized == writes

NoWriteSucceeded == \A i \in DOMAIN writes : ~writes[i].ok

\* C13: Republish on a cell on which no Write has returned without error fails
\* with ErrNeverWritten and makes no transport write; otherwise it publishes
\* the stored value it read to the cell's fully-qualified topic with the
\* cell's write options.
C13_RepublishNeedsSuccessfulWrite ==
  [][ /\ (rp.pc = "idle" /\ NoWriteSucceeded) => rp'.pc = "idle"
      /\ (rp.pc = "idle" /\ NoWriteSucceeded /\ ev'.op = "Republish") =>
           (ev'.err = "ErrNeverWritten" /\ writes' = writes)
      /\ (rp.pc = "write" /\ rp'.pc = "idle") =>
           /\ ~NoWriteSucceeded
           /\ Len(writes') = Len(writes) + 1
           /\ \E prefix \in Prefixes :
                /\ writes'[Len(writes')].topic = JoinTopic(<<prefix, ValueTopic>>)
                /\ writes'[Len(writes')].opts = ValueOpts
                /\ writes'[Len(writes')].data = Marshal(marshaler, rp.v).data ]_vars

\* C14: every re-subscribe request a reconnect issues holds exactly one entry
\* for each topic tracked at that moment (named by a Subscribe call and by no
\* Unsubscribe call since), with the options of the latest Subscribe call for
\* it, and a reconnect issues no request only when no topic is tracked,
\* whatever Subscribe and Unsubscribe calls other threads make meanwhile.
C14_ResubscribeExactlyTracked ==
  [][ /\ ev'.op = "resubscribe" =>
           /\ Len(ev'.req) > 0
           /\ \A i, j \in DOMAIN ev'.req :
                ev'.req[i].topic = ev'.req[j].topic => i = j
           /\ { ev'.req[i].topic : i \in DOMAIN ev'.req } = DOMAIN latest
           /\ \A i \in DOMAIN ev'.req : ev'.req[i] = latest[ev'.req[i].topic]
      /\ ev'.op = "onReconnect" => DOMAIN latest = {} ]_vars

\* a reconnect re-subscribed two topics, one of them with the higher quality
\* of service
C14_Witness ==
  /\ ev.op = "resubscribe"
  /\ Len(ev.req) = 2
  /\ \E i, j \in DOMAIN ev.req : ev.req[i].qos = 1 /\ ev.req[j].qos = 0

\* C15: when the transport refuses the re-subscribe request of a reconnect,
\* the tracked subscriptions are unchanged, the reconnect handling ends
\* without sending the request again, and the lock is free for the calls that
\* follow.
C15_FailedResubscribeOnlyReported ==
  [][ (ev'.op = "resubscribe" /\ ~ev'.ok) =>
        /\ subscriptions' = subscriptions
        /\ latest' = latest
        /\ mu' = 0
        /\ \E p \in Threads :
             th[p].pc = "send" /\ th[p].op = "reconnect" /\ th'[p] = ThreadIdle
        /\ \A p \in Threads : th'[p].pc = "idle" ]_vars

\* the transport refused a re-subscribe request for two topics and the
\* subscription manager is idle again
C15_Witness ==
  /\ ev.op = "resubscribe" /\ ~ev.ok
  /\ Len(ev.req) = 2
  /\ Cardinality(DOMAIN subscriptions) = 2
  /\ mu = 0

C17_SecondSubscribeFails ==
  [][ (ev'.op = "Subscribe" /\ subState # "unsubscribed") =>
        (ev'.err = "ErrComponentAlreadySubscribed" /\ ev'.call = <<>>) ]_vars

\* C18: Component.Unsubscribe with no Subscribe call before it (or none since
\* the last Unsubscribe) returns nil without calling the Subscriber; after a
\* Subscribe that returned nil it asks the Subscriber to unsubscribe exactly
\* the topics that Subscribe registered (no call when there are none); an
\* Unsubscribe right after an Unsubscribe makes no call.
C18_UnsubscribeFrame ==
  [][ ev'.op = "Unsubscribe" =>
        /\ subState = "unsubscribed" => (ev'.err = "nil" /\ ev'.call = <<>>)
        /\ subState = "subscribed" =>
             IF registered = <<>>
               THEN ev'.err = "nil" /\ ev'.call = <<>>
               ELSE ev'.call = <<[kind |-> "Unsubscribe", topics |-> registered]>>
        /\ ev.op = "Unsubscribe" => (ev'.err = "nil" /\ ev'.call = <<>>) ]_vars

\* after a Subscribe that returned nil, Unsubscribe handed two topics or more
\* to the Subscriber
C18_Witness ==
  /\ ev.op = "Unsubscribe" /\ ev.from = "subscribed"
  /\ Len(ev.call) = 1
  /\ Len(ev.call[1].topics) >= 2

\* the prefix, trimmed, is a whole-segment prefix of the topic
LiesUnder(prefix, topic) ==
  LET pre == TrimTopic(prefix)
  IN  \/ pre = <<>>
      \/ topic = pre
      \/ /\ Len(topic) > Len(pre)
         /\ SubSeq(topic, 1, Len(pre)) = pre
         /\ topic[Len(pre) + 1] = TopicSeparator

\* C19: a message whose topic does not lie under the Component's topic prefix
\* is not forwarded to the platform and changes no cell.
C19_ForeignTopicIsDropped ==
  [][ (ev'.op = "Handle" /\ ~LiesUnder(topicPrefix, ev'.topic)) =>
        (ev'.forwarded = <<>> /\ cells' = cells) ]_vars

Configured(cell) == ~cell.nil /\ cell.topic # <<>>

\* C20: when the prefix-stripped topic of a message with a decodable payload
\* equals the fully-qualified topic of one or more configured command cells
\* of the Light, the first of them in declaration order is updated and no
\* other cell changes; when it equals none, no cell changes.
C20_FirstMatchWins ==
  [][ (/\ ev'.op = "Handle"
       /\ platformKind = "light"
       /\ ev'.forwarded # <<>>
       /\ ~ParseUint(ev'.payload).err) =>
        LET rest == ev'.forwarded[1]
            matching == { i \in LightCells :
                            /\ Configured(cells[i])
                            /\ FullyQualifiedTopic(cells[i], <<>>) = rest }
        IN  IF matching = {}
              THEN cells' = cells
              ELSE LET first == CHOOSE i \in matching : \A j \in matching : i <= j
                   IN  cells' = [cells EXCEPT
                                   ![first].v = ParseUint(ev'.payload).v,
                                   ![first].initialized = TRUE] ]_vars

RECURSIVE JoinWith(_, _)
\* the strings of a list joined by sep
JoinWith(strs, sep) ==
  IF strs = <<>> THEN <<>>
  ELSE IF Len(strs) = 1 THEN strs[1]
  ELSE strs[1] \o sep \o JoinWith(Tail(strs), sep)

\* the segments that are neither empty nor the bare separator
KeptSegment(part) == part # <<>> /\ part # <<TopicSeparator>>

Trimmed(strs) == [i \in 1..Len(strs) |-> TrimTopic(strs[i])]

EdgedBySeparator(topic) ==
  topic # <<>> /\ (Head(topic) = TopicSeparator \/ topic[Len(topic)] = TopicSeparator)

\* C30: JoinTopic discards every empty or bare-separator segment, trims each
\* remaining segment and joins them with a single separator; for every list of
\* segments the result neither begins nor ends with the separator.
C30_JoinTopicNeverEdgedBySeparator ==
  ev.op = "JoinTopic" =>
    /\ ev.result = JoinWith(Trimmed(SelectSeq(ev.parts, KeptSegment)), <<TopicSeparator>>)
    /\ ~EdgedBySeparator(ev.result)

\* the sanitized strings of a list
Sanitized(strs) == [i \in 1..Len(strs) |-> IDSanitizer(strs[i])]

NonEmpty(str) == str # <<>>

\* Identifiers, then those of Name, Serial, Manufacturer, Model and ModelID
\* that are non-empty
IdSources(d) ==
  d.Identifiers
    \o SelectSeq(<<d.Name, d.Serial, d.Manufacturer, d.Model, d.ModelID>>, NonEmpty)

\* C29: Device.ID returns DiscoveryID when it is non-empty; otherwise the
\* sanitized Identifiers followed by those of Name, Serial, Manufacturer, Model
\* and ModelID that are non-empty, in that order, joined by "__"; that id
\* contains no space, ':', '.', '!', '?' or '/'.
C29_IdIsOverrideOrJoinedSources ==
  ev.op = "ID" =>
    IF device.DiscoveryID # <<>>
      THEN ev.result = device.DiscoveryID
      ELSE /\ ev.result = JoinWith(Sanitized(IdSources(device)), IDSep)
           /\ \A i \in 1..Len(ev.result) : ev.result[i] \notin UnsafeChars

\* a Device with no identifiers and no connections
NoIdentity(d) == Len(d.Identifiers) = 0 /\ Len(d.Connections) = 0

\* C21: Configure on a Device with no identifiers and no connections returns
\* the invalid-device error and makes no transport write; a Device with an
\* identifier or a connection is not refused as invalid.
C21_InvalidDeviceRejectedBeforeWrite ==
  [][ ev'.op = "Configure" =>
        IF NoIdentity(device)
          THEN ev'.err = Returns("ErrInvalidDevice") /\ sent' = sent
          ELSE \A i \in 1..Len(ev'.err) : ev'.err[i].is # "ErrInvalidDevice" ]_vars

C21_Witness ==
  /\ ev.op = "Configure" /\ NoIdentity(device)
  /\ ev.err = Returns("ErrInvalidDevice") /\ sent = <<>>

\* the configuration errors that assembling the document reports, the map's
\* keys visited in the given order
AssemblyErrors(order) ==
  IF NoIdentity(device)
    THEN Returns("ErrInvalidDevice")
    ELSE Document(device, components, order).err

\* C22: whenever assembling the document reports a configuration error,
\* Configure returns that error and makes no transport write; a transport
\* write is made only when assembly reported no error.
C22_NoWriteOnConfigurationError ==
  [][ ev'.op = "Configure" =>
        /\ AssemblyErrors(ev'.order) # <<>> =>
             (ev'.err = AssemblyErrors(ev'.order) /\ sent' = sent)
        /\ sent' # sent => AssemblyErrors(ev'.order) = <<>> ]_vars

C22_Witness ==
  /\ ev.op = "Configure" /\ ~NoIdentity(device) /\ sent = <<>>
  /\ \E i \in 1..Len(ev.err) : ev.err[i].is = "ErrMissingStateOrCommandTopic"

\* the number of times an error occurs in a joined error
Occurrences(errs, e) == Cardinality({ i \in 1..Len(errs) : errs[i] = e })

\* the violations of one component: a required field that is not set (the
\* availability cell, the Light's command cell, the Sensor's state cell, the
\* unique id) and a color mode state cell without its command cell, each with
\* the error that reports it
Violations(c) ==
  (IF c.Availability.nil
     THEN {[name |-> "availability", is |-> "ErrTopicRequired"]} ELSE {})
  \cup (IF c.UniqueID = ZeroValue
          THEN {[name |-> "unique id", is |-> "ErrValueRequired"]} ELSE {})
  \cup (IF c.Platform.kind = "light"
          THEN (IF c.Platform.Command.nil
                  THEN {[name |-> "command", is |-> "ErrTopicRequired"]} ELSE {})
               \cup (IF c.Platform.ColorMode.nil # c.Platform.ColorModeCommand.nil
                       THEN {[name |-> "color mode", is |-> "ErrMissingStateOrCommandTopic"]}
                       ELSE {})
          ELSE (IF c.Platform.State.nil
                  THEN {[name |-> "state", is |-> "ErrTopicRequired"]} ELSE {}))

\* the violations a component of the map can have
AllViolations == UNION { Violations(components[k]) : k \in DOMAIN components }

\* C23: validation errors are aggregated, not short-circuited: when the
\* components of a valid Device have two or more violations, in one component
\* or in two, the error Configure returns contains every one of them, once
\* for each component that has it.
C23_EveryViolationReported ==
  [][ (ev'.op = "Configure" /\ ~NoIdentity(device)) =>
        \A e \in AllViolations :
          Occurrences(ev'.err, e) =
            Cardinality({ k \in DOMAIN components : e \in Violations(components[k]) }) ]_vars

\* the keys of K among the members written, in the order they were written
KeysAmong(out, K) ==
  LET Among(m) == m.k \in K
      found == SelectSeq(out, Among)
  IN [i \in 1..Len(found) |-> found[i].k]

\* the pairs Light.MarshalDiscoveryTo hands to
\* MaybeMarshalStateAndCommandTopics: the name, the key and the cell given as
\* state, the key and the cell given as command
PairedTopics(l) ==
  { [name |-> "color mode", sk |-> "clrm_stat_t", s |-> l.ColorMode,
     ck |-> "clrm_cmd_t", c |-> l.ColorModeCommand],
    [name |-> "brightness", sk |-> "bri_stat_t", s |-> l.Brightness,
     ck |-> "bri_cmd_t", c |-> l.BrightnessCommand],
    [name |-> "color temperature", sk |-> "clr_temp_stat_t", s |-> l.ColorTemperature,
     ck |-> "clr_temp_cmd_t", c |-> l.ColorTemperatureCommand],
    [name |-> "hue sat", sk |-> "hs_stat_t", s |-> l.ColorTemperature,
     ck |-> "hs_cmd_t", c |-> l.ColorTemperatureCommand],
    [name |-> "xy", sk |-> "xy_cmd_t", s |-> l.XY,
     ck |-> "xy_stat_t", c |-> l.XYCommand],
    [name |-> "rgb", sk |-> "rgb_stat_t", s |-> l.RGB,
     ck |-> "rgb_cmd_t", c |-> l.RGBCommand],
    [name |-> "rgbw", sk |-> "rgbW_stat_t", s |-> l.RGBW,
     ck |-> "rgbW_cmd_t", c |-> l.RGBWCommand],
    [name |-> "rgbww", sk |-> "rgbWW_stat_t", s |-> l.RGBWW,
     ck |-> "rgbWW_cmd_t", c |-> l.RGBWWCommand],
    [name |-> "effect", sk |-> "fx_stat_t", s |-> l.Effect,
     ck |-> "fx_cmd_t", c |-> l.EffectCommand] }

\* the component whose object was assembled
Marshaled == components[ev.key]

\* the errors of a joined error that carry the name
Named(errs, name) == { errs[i] : i \in { j \in 1..Len(errs) : errs[j].name = name } }

KeysWithTopic(p, prefix) ==
  (IF FullyQualifiedTopic(p.s, prefix) # <<>> THEN <<p.sk>> ELSE <<>>)
    \o (IF FullyQualifiedTopic(p.c, prefix) # <<>> THEN <<p.ck>> ELSE <<>>)

Keys(out) == { out[i].k : i \in 1..Len(out) }

\* a field, the key it is documented under, absent or zero-valued
Field(k, absent) == [k |-> k, absent |-> absent]

\* the optional fields of a Light
LightOptionalFields(l) ==
  { Field("on_cmd_type", l.OnCommandType = ZeroValue),
    Field("opt", l.Optimistic = ZeroValue),
    Field("stat_t", l.State.nil),
    Field("pl_on", l.CustomPowerStateValues.On = ZeroValue),
    Field("pl_off", l.CustomPowerStateValues.Off = ZeroValue),
    Field("clrm_stat_t", l.ColorMode.nil),
    Field("clrm_cmd_t", l.ColorModeCommand.nil),
    Field("sup_clrm", Len(l.SupportedColorModes) = 0),
    Field("bri_stat_t", l.Brightness.nil),
    Field("bri_cmd_t", l.BrightnessCommand.nil),
    Field("bri_scl", l.BrightnessScale = ZeroValue),
    Field("clr_temp_stat_t", l.ColorTemperature.nil),
    Field("clr_temp_cmd_t", l.ColorTemperatureCommand.nil),
    Field("clr_temp_k", l.ColorTemperatureInKelvin = ZeroValue),
    Field("max_k", l.MaxKelvin = ZeroValue),
    Field("min_k", l.MinKelvin = ZeroValue),
    Field("max_mirs", l.MaxMireds = ZeroValue),
    Field("min_mirs", l.MinMireds = ZeroValue),
    Field("hs_stat_t", l.HueSat.nil),
    Field("hs_cmd_t", l.HueSatCommand.nil),
    Field("xy_stat_t", l.XY.nil),
    Field("xy_cmd_t", l.XYCommand.nil),
    Field("rgb_stat_t", l.RGB.nil),
    Field("rgb_cmd_t", l.RGBCommand.nil),
    Field("rgbW_stat_t", l.RGBW.nil),
    Field("rgbW_cmd_t", l.RGBWCommand.nil),
    Field("rgbWW_stat_t", l.RGBWW.nil),
    Field("rgbWW_cmd_t", l.RGBWWCommand.nil),
    Field("whit_cmd_t", l.WhiteBrightnessCommand.nil),
    Field("whit_scl", l.WhiteScale = ZeroValue),
    Field("fx_stat_t", l.Effect.nil),
    Field("fx_cmd_t", l.EffectCommand.nil),
    Field("fx_list", Len(l.PossibleEffects) = 0) }

\* the optional fields of a Sensor
SensorOptionalFields(sn) ==
  { Field("exp_after", sn.ExpireMeasurementsAfter = ZeroValue),
    Field("frc_upd", sn.ForceUpdate = ZeroValue),
    Field("json_attr_t", sn.Attributes.nil),
    Field("opts", Len(sn.EnumOptions) = 0),
    Field("sug_dsp_prc", sn.SuggestedDisplayPrecision = ZeroValue),
    Field("stat_cla", sn.StateClass = ZeroValue),
    Field("unit_of_meas", sn.UnitOfMeasurement = ZeroValue) }

\* the optional fields of a Component and of its platform
OptionalFields(c) ==
  { Field("name", c.Name = ZeroValue),
    Field("ent_cat", c.EntityCategory = ZeroValue),
    Field("ic", c.Icon = ZeroValue),
    Field("picture", c.Picture.nil),
    Field("pl_avail", c.CustomAvailabilityValues.Available = ZeroValue),
    Field("pl_not_avail", c.CustomAvailabilityValues.Unavailable = ZeroValue),
    Field("def_ent_id", c.DefaultEntityID = ZeroValue),
    Field("qos", c.WriteOptions.QoS = ZeroValue),
    Field("ret", c.WriteOptions.Retain = ZeroValue) }
  \cup (CASE c.Platform.kind = "light" -> LightOptionalFields(c.Platform)
          [] c.Platform.kind = "sensor" -> SensorOptionalFields(c.Platform)
          [] c.Platform.kind = "binary_sensor" ->
               SensorOptionalFields(c.Platform)
                 \cup {Field("off_dly", c.Platform.OffDelay = ZeroValue)})

\* C25: an optional field of Component, Light, Sensor or BinarySensor that is
\* absent or zero-valued contributes no key to the document, optional list
\* fields such as the Light's supported color modes included.
C25_AbsentOptionalFieldHasNoKey ==
  ev.op = "MarshalJSONTo" =>
    \A f \in OptionalFields(Marshaled) : f.absent => f.k \notin Keys(ev.out)

\* the required topic-bearing fields of a component: the name its error
\* carries, its key, its cell
RequiredTopics(c) ==
  { [name |-> "availability", k |-> "avty_t", cell |-> c.Availability] }
  \cup (IF c.Platform.kind = "light"
          THEN { [name |-> "command", k |-> "cmd_t", cell |-> c.Platform.Command] }
          ELSE { [name |-> "state", k |-> "stat_t", cell |-> c.Platform.State] })

\* an element of the joined error
Reported(errs, e) == \E i \in 1..Len(errs) : errs[i] = e

\* C26: a required topic-bearing field (Component.Availability, Light.Command,
\* Sensor.State) whose cell is absent or has no configured topic makes
\* assembly fail with the topic-required error and emits no key for that
\* field, whatever the topic prefix.
C26_RequiredTopicMissingFails ==
  ev.op = "MarshalJSONTo" =>
    \A r \in RequiredTopics(Marshaled) :
      (r.cell.nil \/ r.cell.topic = <<>>) =>
        /\ Reported(ev.err, [name |-> r.name, is |-> "ErrTopicRequired"])
        /\ r.k \notin Keys(ev.out)

\* C27: every field tagged hqtt:"required" is checked: assembling a Component
\* whose UniqueID is empty, or whose Availability cell is absent, fails with a
\* required-field error.
C27_RequiredFieldsChecked ==
  ev.op = "MarshalJSONTo" =>
    /\ Marshaled.UniqueID = ZeroValue =>
         \E i \in 1..Len(ev.err) : ev.err[i].is = "ErrValueRequired"
    /\ Marshaled.Availability.nil =>
         Reported(ev.err, [name |-> "availability", is |-> "ErrTopicRequired"])

\* the value of the first member written under the key
ValueOf(out, key) == out[CHOOSE i \in 1..Len(out) : out[i].k = key].v

\* C28: a Configure that returns nil has made exactly one transport write,
\* with the retain option set, to <discovery-prefix>/device/<Device.ID()>/config,
\* carrying a document with a device section, an origin section (DefaultOrigin
\* when Origin is unset) and a components section keyed by the supplied keys.
C28_OneRetainedWriteToConfigTopic ==
  [][ (ev'.op = "Configure" /\ ev'.err = ReturnsNil) =>
        /\ Len(sent') = Len(sent) + 1
        /\ SubSeq(sent', 1, Len(sent)) = sent
        /\ LET w == sent'[Len(sent')]
           IN /\ w.options.Retain
              /\ w.topic = ev'.discoveryPrefix
                             \o <<TopicSeparator, "d", "e", "v", "i", "c", "e", TopicSeparator>>
                             \o DeviceID(device)
                             \o <<TopicSeparator, "c", "o", "n", "f", "i", "g">>
              /\ KeysAmong(w.payload, {"dev", "o", "cmps"}) = <<"dev", "o", "cmps">>
              /\ ValueOf(w.payload, "dev") = DeviceJSON(device)
              /\ ValueOf(w.payload, "o") =
                   OriginJSON(IF device.Origin.nil THEN DefaultOrigin ELSE device.Origin)
              /\ Keys(ValueOf(w.payload, "cmps")) = DOMAIN components
              /\ Len(ValueOf(w.payload, "cmps")) = Cardinality(DOMAIN components) ]_vars

C28_Witness ==
  /\ ev.op = "Configure" /\ ev.err = ReturnsNil
  /\ Len(sent) = 1 /\ sent[1].options.Retain
  /\ device.Origin.nil
  /\ DOMAIN components = ComponentKeys
  /\ ValueOf(sent[1].payload, "o") = OriginJSON(DefaultOrigin)

\* C31: joining is idempotent: for every list of segments, joining the joined
\* result again reproduces it, and trimming the joined result reproduces it.
C31_JoinIsIdempotent ==
  ev.op = "JoinTopic" =>
    /\ JoinTopic(<<ev.result>>) = ev.result
    /\ TrimTopic(ev.result) = ev.result

\* C32: no operation other than Await blocks indefinitely: a delivery to a
\* RemoteValue is never left waiting in an observer that reads the cell with
\* Get or calls Watch, Unwatch or Await on it during its invocation.
C32_DeliveryNeverBlocksInObserver ==
  \A p \in Threads : dl[p].pc # "blocked"

\* a delivery that has the lock and has not yet returned
Delivering(p) == dl[p].pc \in {"locked", "notify", "blocked"}

\* C33: two concurrent deliveries to the same RemoteValue never interleave:
\* when a delivery replaces the stored value no other delivery is between its
\* lock and its return, every observer is invoked with the value of the
\* delivery that invokes it, which is the stored value at that moment, and a
\* delivery that returns leaves its own value stored.
C33_DeliveriesNeverInterleave ==
  [][ /\ ev'.op = "store" =>
           \A q \in Threads \ {ev'.thread} : ~Delivering(q)
      /\ ev'.op = "invoke" =>
           /\ ev'.arg = ev'.val
           /\ ev'.arg = rvV
           /\ \A q \in Threads \ {ev'.thread} : ~Delivering(q)
      /\ ev'.op = "delivered" => rvV' = ev'.val ]_vars

\* an observer is invoked with the second value while the delivery of another
\* value by the other thread waits for the lock
C33_Witness ==
  /\ ev.op = "invoke"
  /\ ev.arg = 2
  /\ ev.watcher = Cb(2)
  /\ \E q \in Threads \ {ev.thread} :
       /\ dl[q].pc = "lock"
       /\ dl[q].topic = CellTopic
       /\ dl[q].payload = Itoa(1)

\* C34: the transient observer of Await signals completion at most once: no
\* delivery faults by closing the completion channel a second time, whether
\* the satisfying payloads arrive before Await has deregistered its observer
\* or after Await has returned.
C34_CompletionSignalledAtMostOnce ==
  [][ ev'.op = "ServeMQTT" =>
        \A k \in Awaits :
          (aw[k].done /\ <<Tr(k), ev'.val>> \in Range(ev'.calls)) =>
            ~Desired(aw[k].pred, ev'.val) ]_vars

\* C35: Republish never moves a Value cell backwards: when a Republish that
\* read the stored value y completes after a Write(x) that came in between,
\* the stored value remains x and the last payload published is that of x.
C35_RepublishNeverMovesBackwards ==
  [][ (rp.pc = "write" /\ rp'.pc = "idle" /\ valV # rp.v) =>
        /\ valV' = valV
        /\ writes' # <<>>
        /\ writes'[Len(writes')].data = Marshal(marshaler, valV).data ]_vars

\* C36: when the Subscriber rejected the call made by Component.Subscribe the
\* Component remains unsubscribed: the next Subscribe reaches the Subscriber
\* again instead of failing with ErrComponentAlreadySubscribed, and an
\* Unsubscribe makes no call to the Subscriber.
C36_RejectedSubscribeLeavesUnsubscribed ==
  [][ subState = "rejected" =>
        /\ ev'.op = "Subscribe" =>
             (ev'.err # "ErrComponentAlreadySubscribed" /\ ev'.call # <<>>)
        /\ ev'.op = "Unsubscribe" => ev'.call = <<>> ]_vars

\* no Subscribe, Unsubscribe or reconnect is in progress
Quiescent == \A p \in Threads : th[p].pc = "idle"

\* C37: after every sequence of Subscribe and Unsubscribe calls the topics
\* with a dispatch handler are the tracked topics, each with exactly one
\* handler: a message on an unsubscribed topic invokes no handler, and a
\* message on a topic subscribed, unsubscribed and subscribed again invokes
\* the handler once.
C37_HandlersMatchTrackedTopics ==
  Quiescent =>
    /\ \A t \in AdTopics :
         handlers[t] = IF t \in DOMAIN subscriptions THEN 1 ELSE 0
    /\ ev.op = "Route" =>
         ev.invoked = IF ev.topic \in DOMAIN subscriptions THEN 1 ELSE 0

\* the cell that contributed the k-th subscription of Light.Subscriptions:
\* the k-th field, in declaration order, that is set and has a topic
Contributor(light, k) ==
  CHOOSE i \in DOMAIN light :
    /\ Configured(light[i])
    /\ Cardinality({ j \in 1..i : Configured(light[j]) }) = k

\* C38: subscription and routing agree: a message with a decodable payload
\* that arrives at the Component's handler on the topic of one of the
\* subscriptions its platform returns from Subscriptions(TopicPrefix) updates
\* the cell that contributed that subscription, for every cell topic and
\* prefix, those written with leading or trailing separators included.
C38_SubscribedTopicReachesItsCell ==
  [][ (ev'.op = "Handle" /\ ~ParseUint(ev'.payload).err) =>
        LET subs == PlatformSubscriptions(platformKind, cells, topicPrefix)
        IN  \A k \in DOMAIN subs :
              subs[k].topic = ev'.topic =>
                LET i == Contributor(cells, k)
                IN  /\ cells'[i].initialized
                    /\ cells'[i].v = ParseUint(ev'.payload).v ]_vars

\* the paired concepts of a Light: the state-topic key with the concept's
\* state cell, the command-topic key with its command cell
LightConcepts(l) ==
  { [sk |-> "clrm_stat_t", s |-> l.ColorMode, ck |-> "clrm_cmd_t", c |-> l.ColorModeCommand],
    [sk |-> "bri_stat_t", s |-> l.Brightness, ck |-> "bri_cmd_t", c |-> l.BrightnessCommand],
    [sk |-> "clr_temp_stat_t", s |-> l.ColorTemperature,
     ck |-> "clr_temp_cmd_t", c |-> l.ColorTemperatureCommand],
    [sk |-> "hs_stat_t", s |-> l.HueSat, ck |-> "hs_cmd_t", c |-> l.HueSatCommand],
    [sk |-> "xy_stat_t", s |-> l.XY, ck |-> "xy_cmd_t", c |-> l.XYCommand],
    [sk |-> "rgb_stat_t", s |-> l.RGB, ck |-> "rgb_cmd_t", c |-> l.RGBCommand],
    [sk |-> "rgbW_stat_t", s |-> l.RGBW, ck |-> "rgbW_cmd_t", c |-> l.RGBWCommand],
    [sk |-> "rgbWW_stat_t", s |-> l.RGBWW, ck |-> "rgbWW_cmd_t", c |-> l.RGBWWCommand],
    [sk |-> "fx_stat_t", s |-> l.Effect, ck |-> "fx_cmd_t", c |-> l.EffectCommand] }

\* the member written under the key carries the topic
Carries(out, key, topic) ==
  \E i \in 1..Len(out) : out[i].k = key /\ out[i].v = topic

\* C39: for each paired concept of a Light, when both of the concept's cells
\* are configured the state-topic key carries the fully-qualified topic of
\* the concept's state cell and the command-topic key that of its command
\* cell; when neither is configured, neither key appears.
C39_PairKeysCarryTheirOwnCells ==
  (ev.op = "MarshalJSONTo" /\ Marshaled.Platform.kind = "light") =>
    \A p \in LightConcepts(Marshaled.Platform) :
      LET st == FullyQualifiedTopic(p.s, Marshaled.TopicPrefix)
          cmd == FullyQualifiedTopic(p.c, Marshaled.TopicPrefix)
      IN  /\ (st # <<>> /\ cmd # <<>>) =>
               (Carries(ev.out, p.sk, st) /\ Carries(ev.out, p.ck, cmd))
          /\ (p.s.nil /\ p.c.nil) => Keys(ev.out) \cap {p.sk, p.ck} = {}

\* the topic has two separators in a row
HasEmptySegment(topic) ==
  \E i \in 1..(Len(topic) - 1) : topic[i] = TopicSeparator /\ topic[i + 1] = TopicSeparator

\* C40: for every Device that passes Valid, one identified only by its
\* Connections included, a successful Configure publishes to
\* <discovery-prefix>/device/<id>/config with a non-empty id: the part of the
\* topic that follows the discovery prefix has no empty segment.
C40_ConfigTopicHasDeviceId ==
  [][ (ev'.op = "Configure" /\ ev'.err = ReturnsNil) =>
        LET topic == sent'[Len(sent')].topic
            pre == Len(ev'.discoveryPrefix)
        IN  /\ DeviceID(device) # <<>>
            /\ SubSeq(topic, 1, pre) = ev'.discoveryPrefix
            /\ ~HasEmptySegment(SubSeq(topic, pre + 1, Len(topic))) ]_vars

====
